---------------------------- MODULE Spec2Model ----------------------------
(***************************************************************************)
(* EarthPH: the scrape / parse / dedupe / upsert / retire pipeline and the *)
(* read service, as implemented by the serverless handlers under api/.     *)
(*                                                                         *)
(* Handlers modelled (one action each, in Spec):                           *)
(*   "events"      api/events.js          read service + scrapeAndStore    *)
(*   "events_cjs"  api/events-cjs.js      read service, storage only       *)
(*   "scrape"      api/scrape.js          trigger, 5 minute gate           *)
(*   "scrape_cjs"  api/scrape-cjs.js      trigger, second module.exports   *)
(*   "cron_cjs"    api/earthph-cron-cjs.js trigger, 1 minute gate          *)
(*   "cron"        api/earthph-cron.js    trigger, 1 minute gate           *)
(*                                                                         *)
(* Time is counted in ticks.  The durations of the code are scaled to a    *)
(* few ticks, keeping their order: 1 minute < 5 minutes < 24 hours.        *)
(* Latitude and longitude are fixed-point, in units of 1e-4 degree, and    *)
(* magnitude in tenths, so that toFixed(4) / toFixed(1) are exact.         *)
(*                                                                         *)
(* Spec runs all six handlers; SpecEvents, SpecCron and SpecScrape run     *)
(* the handlers of one kind, one whole request per step; SpecPair runs     *)
(* two overlapping invocations of api/scrape-cjs.js, one store call per    *)
(* step; SpecUnconfigured runs the handlers that ask for the secret in a   *)
(* deployment without EARTHPH_CRON_SECRET; SpecRead runs the read service  *)
(* of api/events-cjs.js beside the trigger of api/scrape-cjs.js;           *)
(* SpecRequest runs one read request of api/events.js await by await, and  *)
(* SpecRequestLive adds the fairness of its timers and store calls;        *)
(* SpecParse, SpecRows and SpecExtract apply the DateTime Normalizer and   *)
(* the row loops of api/scrape.js, api/events.js and api/scrape-cjs.js to  *)
(* inputs drawn from bounded sets; SpecRetention applies the sweeps to     *)
(* tables drawn from bounded sets; SpecReaders and SpecTriggers run two    *)
(* overlapping invocations of api/events.js and of the gated triggers,     *)
(* one step per stretch of code between awaits; SpecLimiter runs the       *)
(* limiter of api/events.js and its cleanup.  A behaviour is the life of   *)
(* one function instance: the variables of the modules (timestamps,        *)
(* rateLimitMap) live as long as it does.  The Supabase credentials are    *)
(* configured.                                                             *)
(***************************************************************************)
EXTENDS Integers, Sequences, FiniteSets, TLC

VARIABLES
    now,             \* Date.now(), in ticks
    store,           \* the `events` table: a set of rows, keyed by id
    lastScrapeTime,  \* api/events.js: let lastScrapeTime
    scrapeLast,      \* api/scrape.js: let lastScrapeTime
    cronLast,        \* api/earthph-cron.js: let lastRun
    cronCjsLast,     \* api/earthph-cron-cjs.js: let lastRun
    nreq,            \* number of requests handled so far
    last,            \* what the last handled request did and answered
    inv,             \* in-flight invocations of api/scrape-cjs.js (SpecPair)
    env,             \* process.env.EARTHPH_CRON_SECRET: "set" or "unset"
    rateLimitMap,    \* events.js, events-cjs.js: rateLimitMap, ip -> timestamps
    admits,          \* history: the requests the request limiters let pass
    call             \* a call of a function of the pipeline: argument, result

vars == <<now, store, lastScrapeTime, scrapeLast, cronLast, cronCjsLast,
          nreq, last, inv, env, rateLimitMap, admits, call>>

----------------------------------------------------------------------------
(* Bounds of the model *)

MaxTime == 7        \* the clock stops here
MaxRows == 2         \* data rows of one source document
MaxRequests == 2     \* requests handled in one behaviour

----------------------------------------------------------------------------
(* Program constants, scaled to ticks *)

MINUTE == 1                      \* 60 * 1000 ms
MIN_INTERVAL_cron == MINUTE      \* 60 * 1000
CACHE_DURATION_MS == 2           \* 5 * 60 * 1000
MIN_INTERVAL_scrape == 2         \* 5 * 60 * 1000
RETENTION_MS == 3                \* 24 * 60 * 60 * 1000
ROW_INDEX_CAP == 501             \* if (index >= 501) return false
READ_LIMIT_events == 2           \* .limit(100), scaled
READ_LIMIT_events_cjs == 3       \* .limit(500), scaled
RATE_LIMIT_WINDOW_MS == MINUTE   \* 60000
MAX_REQUESTS_PER_MINUTE == 1     \* events.js: 10, scaled
MAX_REQUESTS_PER_MINUTE_cjs == 2 \* events-cjs.js: 100, scaled
CLEANUP_INTERVAL == 2            \* setInterval(..., 5 * 60 * 1000)

\* the clock starts 24 hours after instant 0
StartTime == RETENTION_MS

(* Values that are no number *)
NaN == 0 - 1         \* parseFloat of text that is no number
NULL == 0 - 2        \* null / undefined
EMPTY == 0 - 3       \* a cell whose trimmed text is ""
GARBAGE == 0 - 4     \* a cell whose text does not start with a number
Infinity == 10000 * 10000   \* parseFloat("Infinity"): above every number
NULLTEXT == "<null>" \* a text column that was given no value

----------------------------------------------------------------------------
(* The upstream document: the <tr> rows of the bulletin table.  A row is   *)
(* its number of <td> cells and the trimmed text of the six cells.  The    *)
(* timestamp cell is the format of its text and the instant it denotes.    *)

Range(s) == {s[i] : i \in DOMAIN s}

Header == [cells |-> 0, dt |-> [fmt |-> "empty", t |-> 0], lat |-> EMPTY,
           lon |-> EMPTY, depth |-> EMPTY, mag |-> EMPTY, loc |-> ""]

E1 == [cells |-> 6, dt |-> [fmt |-> "month", t |-> StartTime], lat |-> 145995,
       lon |-> 1209842, depth |-> 10, mag |-> 32, loc |-> "Nasugbu"]
E1m == [E1 EXCEPT !.mag = 40, !.loc = "Batangas"]      \* the same event, revised
OldRow == [E1 EXCEPT !.dt = [fmt |-> "month", t |-> 0], !.lon = 1250000]
OutRow == [E1 EXCEPT !.lat = 250000]                   \* 25.0 N
IsoRow == [E1 EXCEPT !.dt = [fmt |-> "iso", t |-> StartTime]]

RowPool == {E1, E1m, OldRow, OutRow, IsoRow}

RECURSIVE Bodies(_)
Bodies(n) == IF n = 0 THEN {<<>>}
             ELSE Bodies(n - 1) \cup
                  {Append(b, r) : b \in {x \in Bodies(n - 1) : Len(x) = n - 1},
                                  r \in RowPool}

Docs == {<<Header>> \o b : b \in Bodies(MaxRows)}
NoDoc == <<>>

----------------------------------------------------------------------------
(* Parsing of cells *)

\* "DD Month YYYY - hh:mm AM": events.js, scrape-cjs.js, earthph-cron*.js
parsePhivolcsDateTime(dt) == IF dt.fmt = "month" THEN dt.t ELSE NULL

\* "YYYY-MM-DD - hh:mm AM": api/scrape.js
parsePhivolcsDateTime_scrape(dt) == IF dt.fmt = "iso" THEN dt.t ELSE NULL

parseFloat(c) == IF c \in {EMPTY, GARBAGE} THEN NaN ELSE c

\* parseFloat(depthRaw) || null
parseDepth(c) == IF parseFloat(c) = NaN \/ parseFloat(c) = 0 THEN NULL
                 ELSE parseFloat(c)

\* (x * 100).toFixed(0), x in units of 1e-4
Times100Fixed0(x) == IF x = NaN THEN NaN ELSE (x + 50) \div 100

----------------------------------------------------------------------------
(* Identity generators *)

\* api/events.js: timestamp, toFixed(4) of both coordinates, toFixed(1) of magnitude
generateEventId_events(occurred_at, latitude, longitude, magnitude) ==
    <<occurred_at, latitude, longitude, magnitude>>

\* api/scrape.js: timestamp and toFixed(4) of both coordinates
generateEventId_scrape(occurred_at, latitude, longitude) ==
    <<occurred_at, latitude, longitude>>

\* earthph-cron*.js, scrape-cjs.js: timestamp and (x * 100).toFixed(0)
generateEventId(occurred_at, latitude, longitude) ==
    <<occurred_at, Times100Fixed0(latitude), Times100Fixed0(longitude)>>

----------------------------------------------------------------------------
(* Row extraction and validation, one operator per handler *)

InBox_events(latitude, longitude) ==
    ~(latitude < 45000 \/ latitude > 210000
      \/ longitude < 1160000 \/ longitude > 1270000)

InBox_cjs(latitude, longitude) ==
    ~(latitude < 40000 \/ latitude > 220000
      \/ longitude < 1160000 \/ longitude > 1280000)

Indices(s) == [i \in 1..Len(s) |-> i]

\* api/events.js, the callback of $('table tbody tr').each
RowOk_events(r) ==
    /\ r.cells = 6
    /\ ~(r.dt.fmt = "empty" \/ r.lat = EMPTY \/ r.lon = EMPTY \/ r.mag = EMPTY)
    /\ ~(parsePhivolcsDateTime(r.dt) = NULL \/ parseFloat(r.lat) = NaN
         \/ parseFloat(r.lon) = NaN \/ parseFloat(r.mag) = NaN)
    /\ InBox_events(parseFloat(r.lat), parseFloat(r.lon))

Event_events(r) ==
    [id |-> generateEventId_events(parsePhivolcsDateTime(r.dt), parseFloat(r.lat),
                                   parseFloat(r.lon), parseFloat(r.mag)),
     occurred_at |-> parsePhivolcsDateTime(r.dt),
     latitude |-> parseFloat(r.lat), longitude |-> parseFloat(r.lon),
     depth_km |-> parseDepth(r.depth), magnitude |-> parseFloat(r.mag),
     location_text |-> r.loc]

Extract_events(doc) ==
    LET ok == SelectSeq(doc, LAMBDA r : RowOk_events(r))
    IN  [i \in 1..Len(ok) |-> Event_events(ok[i])]

\* api/scrape.js, the callback of $('table tbody tr').each
RowOk_scrape(r) ==
    /\ r.cells = 6
    /\ ~(parsePhivolcsDateTime_scrape(r.dt) = NULL \/ parseFloat(r.lat) = NaN
         \/ parseFloat(r.lon) = NaN \/ parseFloat(r.mag) = NaN)
    /\ InBox_events(parseFloat(r.lat), parseFloat(r.lon))

Event_scrape(r) ==
    [id |-> generateEventId_scrape(parsePhivolcsDateTime_scrape(r.dt),
                                   parseFloat(r.lat), parseFloat(r.lon)),
     occurred_at |-> parsePhivolcsDateTime_scrape(r.dt),
     latitude |-> parseFloat(r.lat), longitude |-> parseFloat(r.lon),
     depth_km |-> parseDepth(r.depth), magnitude |-> parseFloat(r.mag),
     location_text |-> r.loc]

Extract_scrape(doc) ==
    LET ok == SelectSeq(doc, LAMBDA r : RowOk_scrape(r))
    IN  [i \in 1..Len(ok) |-> Event_scrape(ok[i])]

\* scrape-cjs.js and earthph-cron-cjs.js: the third table, header row skipped,
\* at most 500 rows; scrape-cjs.js also skips events older than 24 hours
RowOk_cjs(doc, i, ageFilter, t) ==
    LET r == doc[i] IN
    /\ i - 1 # 0
    /\ i - 1 < ROW_INDEX_CAP
    /\ ~(r.cells < 6)
    /\ parsePhivolcsDateTime(r.dt) # NULL
    /\ (ageFilter => ~(parsePhivolcsDateTime(r.dt) < t - RETENTION_MS))
    /\ ~(parseFloat(r.lat) = NaN \/ parseFloat(r.lon) = NaN
         \/ parseFloat(r.mag) = NaN)
    /\ InBox_cjs(parseFloat(r.lat), parseFloat(r.lon))

Event_cjs(r) ==
    [id |-> generateEventId(parsePhivolcsDateTime(r.dt), parseFloat(r.lat),
                            parseFloat(r.lon)),
     occurred_at |-> parsePhivolcsDateTime(r.dt),
     latitude |-> parseFloat(r.lat), longitude |-> parseFloat(r.lon),
     depth_km |-> parseDepth(r.depth), magnitude |-> parseFloat(r.mag),
     location_text |-> r.loc]

Extract_cjs(doc, ageFilter, t) ==
    LET ok == SelectSeq(Indices(doc), LAMBDA i : RowOk_cjs(doc, i, ageFilter, t))
    IN  [k \in 1..Len(ok) |-> Event_cjs(doc[ok[k]])]

\* earthph-cron.js: every row but the first, no validation at all; the
\* record carries four fields only
Event_cron(r) ==
    [id |-> generateEventId(parsePhivolcsDateTime(r.dt), parseFloat(r.lat),
                            parseFloat(r.lon)),
     occurred_at |-> parsePhivolcsDateTime(r.dt),
     latitude |-> parseFloat(r.lat), longitude |-> parseFloat(r.lon),
     depth_km |-> NULL, magnitude |-> NULL, location_text |-> NULLTEXT]

Extract_cron(doc) ==
    LET ix == SelectSeq(Indices(doc), LAMBDA i : i - 1 # 0)
    IN  [k \in 1..Len(ix) |-> Event_cron(doc[ix[k]])]

\* occurred_at.replace(...) on null throws a TypeError out of .each
Throws_cron(doc) ==
    \E i \in 1..Len(doc) : i - 1 # 0 /\ parsePhivolcsDateTime(doc[i].dt) = NULL

----------------------------------------------------------------------------
(* Deduplication *)

\* api/events.js: seenIds, keep the first occurrence
DedupFirst(events) ==
    LET ix == SelectSeq(Indices(events),
                 LAMBDA i : \A j \in 1..(i - 1) : events[j].id # events[i].id)
    IN  [k \in 1..Len(ix) |-> events[ix[k]]]

\* scrape-cjs.js: Array.from(new Map(events.map(e => [e.id, e])).values()):
\* a key keeps the place of its first insertion and the value of its last
DedupMap(events) ==
    LET ix == SelectSeq(Indices(events),
                 LAMBDA i : \A j \in 1..(i - 1) : events[j].id # events[i].id)
        lastOf(i) == CHOOSE j \in 1..Len(events) :
                        /\ events[j].id = events[i].id
                        /\ \A m \in (j + 1)..Len(events) : events[m].id # events[i].id
    IN  [k \in 1..Len(ix) |-> events[lastOf(ix[k])]]

HasDuplicateIds(batch) ==
    \E i, j \in 1..Len(batch) : i # j /\ batch[i].id = batch[j].id

----------------------------------------------------------------------------
(* The event store (Supabase table `events`) *)

\* README.md, Database Setup: id is the primary key; latitude, longitude,
\* magnitude and location_text are NOT NULL (the request body is JSON, where
\* NaN and Infinity are null).  A batch that names one id twice
\* is refused: "ON CONFLICT DO UPDATE command cannot affect row a second time".
ConstraintViolation(batch) ==
    \/ HasDuplicateIds(batch)
    \/ \E i \in 1..Len(batch) :
          \/ batch[i].occurred_at = NULL
          \/ batch[i].latitude \in {NaN, NULL}
          \/ batch[i].longitude \in {NaN, NULL}
          \/ batch[i].magnitude \in {NaN, NULL, Infinity}
          \/ batch[i].location_text = NULLTEXT

\* Upsert gone wrong: a plain insert that takes no notice of the rows there
Upsert_insertOnly(S, batch, t) ==
    S \cup
    {[id |-> e.id, occurred_at |-> e.occurred_at, latitude |-> e.latitude,
      longitude |-> e.longitude, depth_km |-> e.depth_km,
      magnitude |-> e.magnitude, location_text |-> e.location_text,
      created_at |-> t] : e \in Range(batch)}

\* Upsert gone wrong: the batch carries created_at, stamped by the cycle
Upsert_stamps(S, batch, t) ==
    LET ids == {batch[i].id : i \in 1..Len(batch)}
    IN  {r \in S : r.id \notin ids} \cup
        {[id |-> e.id, occurred_at |-> e.occurred_at, latitude |-> e.latitude,
          longitude |-> e.longitude, depth_km |-> e.depth_km,
          magnitude |-> e.magnitude, location_text |-> e.location_text,
          created_at |-> t] : e \in Range(batch)}

\* .upsert(batch): insert, or on conflict on id overwrite the given columns;
\* created_at is no column of the batch: DEFAULT NOW() on insert, kept on update
Upsert(S, batch, t) ==
    LET ids == {batch[i].id : i \in 1..Len(batch)}
        createdAt(id) == IF \E r \in S : r.id = id
                         THEN (CHOOSE r \in S : r.id = id).created_at
                         ELSE t
    IN  {r \in S : r.id \notin ids} \cup
        {[id |-> e.id, occurred_at |-> e.occurred_at, latitude |-> e.latitude,
          longitude |-> e.longitude, depth_km |-> e.depth_km,
          magnitude |-> e.magnitude, location_text |-> e.location_text,
          created_at |-> createdAt(e.id)] : e \in Range(batch)}

\* DeleteOlderCreated gone wrong: .lte where the code has .lt
DeleteOlderCreated_inclusive(S, cutoff) == {r \in S : ~(r.created_at <= cutoff)}

\* .delete().lt('created_at', cutoff) and .delete().lt('occurred_at', cutoff)
DeleteOlderCreated(S, cutoff) == {r \in S : ~(r.created_at < cutoff)}
DeleteOlderOccurred(S, cutoff) == {r \in S : ~(r.occurred_at < cutoff)}

----------------------------------------------------------------------------
(* Read queries *)

\* .order('occurred_at', { ascending: false }).limit(n): every order of the
\* rows with equal occurred_at is a possible answer
RECURSIVE OrderDescLimit(_, _)
OrderDescLimit(S, n) ==
    IF n = 0 \/ S = {} THEN {<<>>}
    ELSE LET top == {r \in S : \A q \in S : q.occurred_at <= r.occurred_at}
         IN  UNION {{<<r>> \o s : s \in OrderDescLimit(S \ {r}, n - 1)} : r \in top}

\* api/events.js: select(...).order(...).limit(100), created_at not selected
Columns_events(r) ==
    [id |-> r.id, occurred_at |-> r.occurred_at, latitude |-> r.latitude,
     longitude |-> r.longitude, depth_km |-> r.depth_km,
     magnitude |-> r.magnitude, location_text |-> r.location_text]

Query_events(S) ==
    {[i \in 1..Len(q) |-> Columns_events(q[i])] :
        q \in OrderDescLimit(S, READ_LIMIT_events)}

\* api/events-cjs.js: .gte('occurred_at', twentyFourHoursAgo).order(...).limit(500)
Query_events_cjs(S, t) ==
    OrderDescLimit({r \in S : r.occurred_at >= t - RETENTION_MS},
                   READ_LIMIT_events_cjs)

\* data.reduce over created_at, or Date.now() when no row is returned
LastUpdated(data, t) ==
    IF Len(data) > 0
    THEN CHOOSE m \in {data[i].created_at : i \in 1..Len(data)} :
            \A i \in 1..Len(data) : data[i].created_at <= m
    ELSE t

Transform_events_cjs(r) ==
    [id |-> r.id, datetime |-> r.occurred_at, latitude |-> r.latitude,
     longitude |-> r.longitude, depth |-> r.depth_km, magnitude |-> r.magnitude,
     location |-> r.location_text]

----------------------------------------------------------------------------
(* One scrape cycle.  The outcome o of the environment: o.fetch is the     *)
(* result of axios.get ("ok", "timeout", "unavailable", "error"), o.doc    *)
(* the document fetched, o.dbOk / o.delOk whether the store serves the     *)
(* upsert / the delete.  The result records what the cycle did.            *)

FetchResults == {"ok", "timeout", "unavailable", "error"}

Outcomes ==
    {x \in [fetch : {"ok"}, doc : Docs, dbOk : BOOLEAN, delOk : BOOLEAN] :
        x.dbOk \/ x.delOk}
    \cup [fetch : FetchResults \ {"ok"}, doc : {NoDoc}, dbOk : {TRUE}, delOk : {TRUE}]

NoCycle(S) ==
    [store |-> S, ran |-> FALSE, fetch |-> "none", doc |-> NoDoc,
     parsed |-> <<>>, upsertCalled |-> FALSE, batch |-> <<>>, upsertOk |-> FALSE,
     sweepCalled |-> FALSE, sweepOk |-> FALSE, sweepBy |-> "none",
     error |-> "none", deleted |-> 0]

\* FetchFailed gone wrong: the table is replaced by the (empty) scrape result
FetchFailed_clears(S, t, o) ==
    [NoCycle({}) EXCEPT !.ran = TRUE, !.fetch = o.fetch, !.error = "fetch"]

\* axios.get threw: nothing was parsed, no store call is made
FetchFailed(S, t, o) ==
    [NoCycle(S) EXCEPT !.ran = TRUE, !.fetch = o.fetch, !.error = "fetch"]

\* AfterUpsert gone wrong: a refused batch leaves its first record behind
AfterUpsert_partial(c, S, batch, t, o) ==
    LET ok == o.dbOk /\ ~ConstraintViolation(batch)
    IN  [c EXCEPT !.upsertCalled = TRUE, !.batch = batch, !.upsertOk = ok,
                  !.store = IF ok THEN Upsert(S, batch, t)
                            ELSE Upsert(S, SubSeq(batch, 1, 1), t),
                  !.error = IF ok THEN "none" ELSE "upsert"]

\* the upsert call: the store takes the whole batch or refuses it
AfterUpsert(c, S, batch, t, o) ==
    LET ok == o.dbOk /\ ~ConstraintViolation(batch)
    IN  [c EXCEPT !.upsertCalled = TRUE, !.batch = batch, !.upsertOk = ok,
                  !.store = IF ok THEN Upsert(S, batch, t) ELSE S,
                  !.error = IF ok THEN "none" ELSE "upsert"]

\* the delete call of the retention sweep; deleted is the number of rows
\* it removed
AfterSweep(c, by, t, o, fatal) ==
    [c EXCEPT !.sweepCalled = TRUE, !.sweepOk = o.delOk, !.sweepBy = by,
              !.store = IF ~o.delOk THEN c.store
                        ELSE IF by = "created_at"
                             THEN DeleteOlderCreated(c.store, t - RETENTION_MS)
                             ELSE DeleteOlderOccurred(c.store, t - RETENTION_MS),
              !.deleted = IF ~o.delOk THEN 0
                          ELSE IF by = "created_at"
                          THEN Cardinality(c.store \
                                  DeleteOlderCreated(c.store, t - RETENTION_MS))
                          ELSE Cardinality(c.store \
                                  DeleteOlderOccurred(c.store, t - RETENTION_MS)),
              !.error = IF ~o.delOk /\ fatal THEN "delete" ELSE c.error]

\* api/events.js scrapeAndStore: every error is caught and logged
scrapeAndStore(S, t, o) ==
    LET c0 == [NoCycle(S) EXCEPT !.ran = TRUE, !.fetch = o.fetch]
    IN  IF o.fetch # "ok" THEN FetchFailed(S, t, o)
        ELSE LET events == Extract_events(o.doc)
                 c1 == [c0 EXCEPT !.doc = o.doc, !.parsed = events]
             IN  IF Len(events) = 0 THEN c1
                 ELSE LET c2 == AfterUpsert(c1, S, DedupFirst(events), t, o)
                      IN  IF ~c2.upsertOk THEN c2
                          ELSE AfterSweep(c2, "created_at", t, o, FALSE)

\* api/scrape.js, the try block of the handler
Cycle_scrape(S, t, o) ==
    LET c0 == [NoCycle(S) EXCEPT !.ran = TRUE, !.fetch = o.fetch]
    IN  IF o.fetch # "ok" THEN FetchFailed(S, t, o)
        ELSE LET events == Extract_scrape(o.doc)
                 c1 == [c0 EXCEPT !.doc = o.doc, !.parsed = events]
             IN  IF Len(events) = 0 THEN c1
                 ELSE LET c2 == AfterUpsert(c1, S, events, t, o)
                      IN  IF ~c2.upsertOk THEN c2
                          ELSE AfterSweep(c2, "occurred_at", t, o, FALSE)

\* api/scrape-cjs.js, the try block of the handler
Cycle_scrape_cjs(S, t, o) ==
    LET c0 == [NoCycle(S) EXCEPT !.ran = TRUE, !.fetch = o.fetch]
    IN  IF o.fetch # "ok" THEN FetchFailed(S, t, o)
        ELSE LET events == Extract_cjs(o.doc, TRUE, t)
                 uniqueEvents == DedupMap(events)
                 c1 == [c0 EXCEPT !.doc = o.doc, !.parsed = events]
                 c2 == IF Len(uniqueEvents) > 0
                       THEN AfterUpsert(c1, S, uniqueEvents, t, o)
                       ELSE c1
             IN  IF c2.error # "none" THEN c2
                 ELSE AfterSweep(c2, "occurred_at", t, o, FALSE)

\* api/earthph-cron-cjs.js, the try block of the handler
Cycle_cron_cjs(S, t, o) ==
    LET c0 == [NoCycle(S) EXCEPT !.ran = TRUE, !.fetch = o.fetch]
    IN  IF o.fetch # "ok" THEN FetchFailed(S, t, o)
        ELSE LET events == Extract_cjs(o.doc, FALSE, t)
                 c1 == [c0 EXCEPT !.doc = o.doc, !.parsed = events]
                 c2 == IF Len(events) > 0
                       THEN AfterUpsert(c1, S, events, t, o)
                       ELSE c1
             IN  IF c2.error # "none" THEN c2
                 ELSE AfterSweep(c2, "created_at", t, o, TRUE)

\* api/earthph-cron.js, the try block of the handler
Cycle_cron(S, t, o) ==
    LET c0 == [NoCycle(S) EXCEPT !.ran = TRUE, !.fetch = o.fetch]
    IN  IF o.fetch # "ok" THEN FetchFailed(S, t, o)
        ELSE IF Throws_cron(o.doc) THEN [c0 EXCEPT !.doc = o.doc, !.error = "parse"]
        ELSE LET events == Extract_cron(o.doc)
                 c1 == [c0 EXCEPT !.doc = o.doc, !.parsed = events]
                 c2 == IF Len(events) > 0
                       THEN AfterUpsert(c1, S, events, t, o)
                       ELSE c1
             IN  IF c2.error # "none" THEN c2
                 ELSE AfterSweep(c2, "created_at", t, o, TRUE)

----------------------------------------------------------------------------
(* The request limiter of the read services *)

IPs == {"ip1", "ip2"}       \* client addresses (x-forwarded-for)

\* checkRateLimit gone wrong: the comparison is > where the code has >=
checkRateLimit_offByOne(map, ip, t, max) ==
    LET recentRequests == SelectSeq(map[ip],
                              LAMBDA timestamp : t - timestamp < RATE_LIMIT_WINDOW_MS)
    IN  IF Len(recentRequests) > max
        THEN [allowed |-> FALSE, remaining |-> 0,
              map |-> [map EXCEPT ![ip] = recentRequests]]
        ELSE [allowed |-> TRUE, remaining |-> max - (Len(recentRequests) + 1),
              map |-> [map EXCEPT ![ip] = Append(recentRequests, t)]]

\* checkRateLimit gone wrong: a refused request is recorded too
checkRateLimit_recordsDenied(map, ip, t, max) ==
    LET recentRequests == SelectSeq(map[ip],
                              LAMBDA timestamp : t - timestamp < RATE_LIMIT_WINDOW_MS)
    IN  IF Len(recentRequests) >= max
        THEN [allowed |-> FALSE, remaining |-> 0,
              map |-> [map EXCEPT ![ip] = Append(recentRequests, t)]]
        ELSE [allowed |-> TRUE, remaining |-> max - (Len(recentRequests) + 1),
              map |-> [map EXCEPT ![ip] = Append(recentRequests, t)]]

\* checkRateLimit(ip) at time t: the timestamps of the window are kept, the
\* request is refused when max of them are left, else its time is added
checkRateLimit(map, ip, t, max) ==
    LET recentRequests == SelectSeq(map[ip],
                              LAMBDA timestamp : t - timestamp < RATE_LIMIT_WINDOW_MS)
    IN  IF Len(recentRequests) >= max
        THEN [allowed |-> FALSE, remaining |-> 0,
              map |-> [map EXCEPT ![ip] = recentRequests]]
        ELSE [allowed |-> TRUE, remaining |-> max - (Len(recentRequests) + 1),
              map |-> [map EXCEPT ![ip] = Append(recentRequests, t)]]

----------------------------------------------------------------------------
(* Requests and answers *)

Methods == {"GET", "OPTIONS", "POST"}
Secrets == {"valid", "wrong", "none"}     \* the secret header of the request
CronMethods == {"GET", "POST"}            \* what reaches a handler that reads no method
EnvSecrets == {"set", "unset"}            \* EARTHPH_CRON_SECRET of the deployment

\* secret !== process.env.EARTHPH_CRON_SECRET: a header that is not sent and
\* a variable that is not set are both undefined
SecretDiffers(secret, e) ==
    ~(\/ secret = "valid" /\ e = "set"
      \/ secret = "none" /\ e = "unset")

\* the counts of a trigger's answer, where the model keeps them
NoReport == [eventsScraped |-> 0, eventsDeleted |-> 0, duplicatesRemoved |-> 0]

\* api/scrape-cjs.js, the 200 answer: eventsUpserted is data?.length ||
\* uniqueEvents.length, where data are the rows the upsert returns;
\* deletedCount is the count the delete call returns, null when the client
\* was given none
Report_scrape_cjs(c, deletedCount) ==
    [eventsScraped |-> IF c.upsertCalled THEN Len(c.batch) ELSE 0,
     eventsDeleted |-> IF deletedCount \in {NULL, 0} THEN 0 ELSE deletedCount,
     duplicatesRemoved |-> Len(c.parsed) - Len(DedupMap(c.parsed))]

\* The record kept of a handled request: the request, the answer
\* (res.status(...).json(...)) and what the scrape cycle it ran did.
Answer(h, method, secret, status, success, cached, events, c) ==
    [n |-> nreq + 1, h |-> h, method |-> method, secret |-> secret, T |-> now,
     status |-> status, success |-> success, cached |-> cached,
     events |-> events,
     ran |-> c.ran, fetch |-> c.fetch, doc |-> c.doc,
     upsertCalled |-> c.upsertCalled, batch |-> c.batch, upsertOk |-> c.upsertOk,
     sweepCalled |-> c.sweepCalled, sweepOk |-> c.sweepOk, sweepBy |-> c.sweepBy,
     error |-> c.error, query |-> "none", ip |-> "none",
     deleted |-> c.deleted, report |-> NoReport, lastUpdated |-> NULL]

NoAnswer ==
    [n |-> 0, h |-> "none", method |-> "none", secret |-> "none", T |-> 0,
     status |-> 0, success |-> "none", cached |-> "none", events |-> <<>>,
     ran |-> FALSE, fetch |-> "none", doc |-> NoDoc,
     upsertCalled |-> FALSE, batch |-> <<>>, upsertOk |-> FALSE,
     sweepCalled |-> FALSE, sweepOk |-> FALSE, sweepBy |-> "none",
     error |-> "none", query |-> "none", ip |-> "none",
     deleted |-> 0, report |-> NoReport, lastUpdated |-> NULL]

NoCall == [fn |-> "none"]

\* What the cycles of earlier function instances, run when only the events
\* of instant 0 were published, have left in the table.
PriorDocs ==
    {d \in Docs : \A i \in 1..Len(d) : d[i].cells = 0 \/ d[i].dt.t <= 0}

PriorOutcomes ==
    {[fetch |-> "ok", doc |-> d, dbOk |-> TRUE, delOk |-> TRUE] : d \in PriorDocs}

PriorStores ==
    UNION {{scrapeAndStore({}, 0, o).store, Cycle_scrape({}, 0, o).store,
            Cycle_scrape_cjs({}, 0, o).store, Cycle_cron_cjs({}, 0, o).store,
            Cycle_cron({}, 0, o).store} : o \in PriorOutcomes}

\* A function instance starts cold: the variables of its module are reset,
\* the table keeps what earlier instances have written.
Init ==
    /\ now = StartTime
    /\ store \in PriorStores
    /\ lastScrapeTime = 0
    /\ scrapeLast = 0
    /\ cronLast = 0
    /\ cronCjsLast = 0
    /\ nreq = 0
    /\ last = NoAnswer
    /\ inv = <<>>
    /\ env = "set"
    /\ rateLimitMap = [h \in {"events", "events_cjs"} |-> [ip \in IPs |-> <<>>]]
    /\ admits = {}
    /\ call = NoCall

\* the same start in a deployment where EARTHPH_CRON_SECRET is not set
InitUnconfigured ==
    /\ now = StartTime
    /\ store \in PriorStores
    /\ lastScrapeTime = 0
    /\ scrapeLast = 0
    /\ cronLast = 0
    /\ cronCjsLast = 0
    /\ nreq = 0
    /\ last = NoAnswer
    /\ inv = <<>>
    /\ env = "unset"
    /\ rateLimitMap = [h \in {"events", "events_cjs"} |-> [ip \in IPs |-> <<>>]]
    /\ admits = {}
    /\ call = NoCall

\* the clock advances
Tick ==
    /\ now < MaxTime
    /\ now' = now + 1
    /\ UNCHANGED <<store, lastScrapeTime, scrapeLast, cronLast, cronCjsLast,
                   nreq, last, inv, env, rateLimitMap, admits, call>>

\* CleanupKeeps gone wrong: the cleanup empties the map
CleanupKeeps_none(t, ts) == FALSE

\* the filter of the cleanup: now - ts < RATE_LIMIT_WINDOW_MS
CleanupKeeps(t, ts) == t - ts < RATE_LIMIT_WINDOW_MS

\* api/events.js: the setInterval callback that prunes rateLimitMap; an
\* entry left empty is deleted, which reads as [] the next time
RateLimitCleanup ==
    /\ now > StartTime
    /\ (now - StartTime) % CLEANUP_INTERVAL = 0
    /\ rateLimitMap' =
          [rateLimitMap EXCEPT !.events =
              [ip \in IPs |->
                  SelectSeq(rateLimitMap.events[ip],
                            LAMBDA ts : CleanupKeeps(now, ts))]]
    /\ UNCHANGED <<now, store, lastScrapeTime, scrapeLast, cronLast, cronCjsLast,
                   nreq, last, inv, env, admits, call>>

\* ErrorAnswer_events gone wrong: the catch block answers 200
ErrorAnswer_events_ok ==
    [status |-> 200, success |-> "false", events |-> <<>>]

\* api/events.js, the catch block of the handler: 500, success false and no
\* events field
ErrorAnswer_events ==
    [status |-> 500, success |-> "false", events |-> <<>>]

\* api/events.js handler: GET /api/events; the request limiter comes first
Handler_events ==
    /\ nreq < MaxRequests
    /\ \E ip \in IPs, method \in Methods :
         LET rateCheck == checkRateLimit(rateLimitMap.events, ip, now,
                                         MAX_REQUESTS_PER_MINUTE)
             Ans(status, success, cached, events, c, query) ==
                 [Answer("events", method, "none", status, success, cached,
                         events, c) EXCEPT !.query = query, !.ip = ip]
         IN
         /\ rateLimitMap' = [rateLimitMap EXCEPT !.events = rateCheck.map]
         /\ admits' = IF rateCheck.allowed
                      THEN admits \cup {[h |-> "events", ip |-> ip, t |-> now,
                                         n |-> nreq + 1]}
                      ELSE admits
         /\ IF ~rateCheck.allowed
            THEN /\ last' = Ans(429, "false", "none", <<>>, NoCycle(store), "none")
                 /\ UNCHANGED <<store, lastScrapeTime>>
            ELSE IF method = "OPTIONS"
            THEN /\ last' = Ans(200, "none", "none", <<>>, NoCycle(store), "none")
                 /\ UNCHANGED <<store, lastScrapeTime>>
            ELSE IF method # "GET"
            THEN /\ last' = Ans(405, "false", "none", <<>>, NoCycle(store), "none")
                 /\ UNCHANGED <<store, lastScrapeTime>>
            ELSE LET shouldRefresh == (now - lastScrapeTime) > CACHE_DURATION_MS
                 IN  \E c \in IF shouldRefresh
                               THEN {scrapeAndStore(store, now, o) : o \in Outcomes}
                               ELSE {NoCycle(store)},
                        queryOk \in BOOLEAN :
                           /\ store' = c.store
                           /\ lastScrapeTime' = IF shouldRefresh THEN now
                                                ELSE lastScrapeTime
                           /\ IF ~queryOk
                              THEN last' = Ans(ErrorAnswer_events.status,
                                               ErrorAnswer_events.success,
                                               "none",
                                               ErrorAnswer_events.events, c,
                                               "error")
                              ELSE \E data \in Query_events(c.store) :
                                     last' = Ans(200, "true",
                                                 IF shouldRefresh THEN "false"
                                                 ELSE "true",
                                                 data, c, "ok")
    /\ nreq' = nreq + 1
    /\ UNCHANGED <<now, scrapeLast, cronLast, cronCjsLast, inv, env, call>>

\* api/events-cjs.js handler: the read service of the deployed system; the
\* method is looked at first, then the request limiter
Handler_events_cjs ==
    /\ nreq < MaxRequests
    /\ \E ip \in IPs, method \in Methods :
         LET rateLimit == checkRateLimit(rateLimitMap.events_cjs, ip, now,
                                         MAX_REQUESTS_PER_MINUTE_cjs)
             Ans(status, success, events, query) ==
                 [Answer("events_cjs", method, "none", status, success, "none",
                         events, NoCycle(store))
                  EXCEPT !.query = query, !.ip = ip]
         IN
         IF method = "OPTIONS"
         THEN /\ last' = Ans(204, "none", <<>>, "none")
              /\ UNCHANGED <<rateLimitMap, admits>>
         ELSE IF method # "GET"
         THEN /\ last' = Ans(405, "false", <<>>, "none")
              /\ UNCHANGED <<rateLimitMap, admits>>
         ELSE /\ rateLimitMap' = [rateLimitMap EXCEPT !.events_cjs = rateLimit.map]
              /\ admits' = IF rateLimit.allowed
                           THEN admits \cup {[h |-> "events_cjs", ip |-> ip,
                                              t |-> now, n |-> nreq + 1]}
                           ELSE admits
              /\ IF ~rateLimit.allowed
                 THEN last' = Ans(429, "false", <<>>, "none")
                 ELSE \E queryOk \in BOOLEAN :
                        IF ~queryOk
                        THEN last' = Ans(500, "false", <<>>, "error")
                        ELSE \E data \in Query_events_cjs(store, now) :
                               last' = [Ans(200, "true",
                                            [i \in 1..Len(data) |->
                                                Transform_events_cjs(data[i])],
                                            "ok")
                                        EXCEPT !.lastUpdated =
                                                   LastUpdated(data, now)]
    /\ nreq' = nreq + 1
    /\ UNCHANGED <<now, store, lastScrapeTime, scrapeLast, cronLast,
                   cronCjsLast, inv, env, call>>

\* RateLimitExceeded gone wrong: <= where the code has <
RateLimitExceeded_inclusive(t, lastTime, minInterval) ==
    t - lastTime <= minInterval

\* scrape.js: timeSinceLastScrape < MIN_INTERVAL; the cron handlers:
\* Date.now() - lastRun < MIN_INTERVAL
RateLimitExceeded(t, lastTime, minInterval) ==
    t - lastTime < minInterval

\* ErrorStatus_scrape gone wrong: the catch block answers as the try block does
ErrorStatus_scrape_ok(c) == 200

\* the catch block of api/scrape.js
ErrorStatus_scrape(c) ==
    IF c.error = "fetch" /\ c.fetch = "timeout" THEN 504
    ELSE IF c.error = "fetch" /\ c.fetch = "unavailable" THEN 503
    ELSE 500

\* api/scrape.js handler: GET /api/scrape
Handler_scrape ==
    /\ nreq < MaxRequests
    /\ \E method \in Methods :
         IF method = "OPTIONS"
         THEN /\ last' = Answer("scrape", method, "none", 200, "none", "none",
                                <<>>, NoCycle(store))
              /\ UNCHANGED <<store, scrapeLast>>
         ELSE IF method # "GET"
         THEN /\ last' = Answer("scrape", method, "none", 405, "none", "none",
                                <<>>, NoCycle(store))
              /\ UNCHANGED <<store, scrapeLast>>
         ELSE IF RateLimitExceeded(now, scrapeLast, MIN_INTERVAL_scrape)
         THEN /\ last' = Answer("scrape", method, "none", 429, "false", "none",
                                <<>>, NoCycle(store))
              /\ UNCHANGED <<store, scrapeLast>>
         ELSE \E o \in Outcomes :
                LET c == Cycle_scrape(store, now, o)
                IN  /\ scrapeLast' = now
                    /\ store' = c.store
                    /\ last' = IF c.error # "none"
                               THEN Answer("scrape", method, "none",
                                           ErrorStatus_scrape(c), "false", "none",
                                           <<>>, c)
                               ELSE Answer("scrape", method, "none", 200, "true",
                                           "none", <<>>, c)
    /\ nreq' = nreq + 1
    /\ UNCHANGED <<now, lastScrapeTime, cronLast, cronCjsLast, inv,
                   env, rateLimitMap, admits, call>>

\* api/scrape-cjs.js handler (the second module.exports of the file)
Handler_scrape_cjs ==
    /\ nreq < MaxRequests
    /\ \E method \in Methods, secret \in Secrets :
         IF method = "OPTIONS"
         THEN /\ last' = Answer("scrape_cjs", method, secret, 204, "none", "none",
                                <<>>, NoCycle(store))
              /\ UNCHANGED store
         ELSE IF method # "GET"
         THEN /\ last' = Answer("scrape_cjs", method, secret, 405, "false",
                                "none", <<>>, NoCycle(store))
              /\ UNCHANGED store
         ELSE IF env = "unset"
         THEN /\ last' = Answer("scrape_cjs", method, secret, 500, "false",
                                "none", <<>>, NoCycle(store))
              /\ UNCHANGED store
         ELSE IF secret = "none" \/ SecretDiffers(secret, env)
         THEN /\ last' = Answer("scrape_cjs", method, secret, 401, "false",
                                "none", <<>>, NoCycle(store))
              /\ UNCHANGED store
         ELSE \E o \in Outcomes :
                LET c == Cycle_scrape_cjs(store, now, o)
                IN  /\ store' = c.store
                    /\ IF c.error # "none"
                       THEN last' = Answer("scrape_cjs", method, secret, 500,
                                           "false", "none", <<>>, c)
                       ELSE \E deletedCount \in {NULL, c.deleted} :
                              last' = [Answer("scrape_cjs", method, secret, 200,
                                              "true", "none", <<>>, c)
                                       EXCEPT !.report =
                                          Report_scrape_cjs(c, deletedCount)]
    /\ nreq' = nreq + 1
    /\ UNCHANGED <<now, lastScrapeTime, scrapeLast, cronLast, cronCjsLast, inv,
                   env, rateLimitMap, admits, call>>

\* api/earthph-cron-cjs.js handler; req.method is never read
Handler_cron_cjs ==
    /\ nreq < MaxRequests
    /\ \E method \in CronMethods, secret \in Secrets :
         IF SecretDiffers(secret, env)
         THEN /\ last' = Answer("cron_cjs", method, secret, 401, "false", "none",
                                <<>>, NoCycle(store))
              /\ UNCHANGED <<store, cronCjsLast>>
         ELSE IF RateLimitExceeded(now, cronCjsLast, MIN_INTERVAL_cron)
         THEN /\ last' = Answer("cron_cjs", method, secret, 429, "false", "none",
                                <<>>, NoCycle(store))
              /\ UNCHANGED <<store, cronCjsLast>>
         ELSE \E o \in Outcomes :
                LET c == Cycle_cron_cjs(store, now, o)
                IN  /\ cronCjsLast' = now
                    /\ store' = c.store
                    /\ last' = IF c.error # "none"
                               THEN Answer("cron_cjs", method, secret, 500,
                                           "false", "none", <<>>, c)
                               ELSE Answer("cron_cjs", method, secret, 200,
                                           "true", "none", <<>>, c)
    /\ nreq' = nreq + 1
    /\ UNCHANGED <<now, lastScrapeTime, scrapeLast, cronLast, inv,
                   env, rateLimitMap, admits, call>>

\* api/earthph-cron.js handler; req.method is never read
Handler_cron ==
    /\ nreq < MaxRequests
    /\ \E method \in CronMethods, secret \in Secrets :
         IF SecretDiffers(secret, env)
         THEN /\ last' = Answer("cron", method, secret, 401, "false", "none",
                                <<>>, NoCycle(store))
              /\ UNCHANGED <<store, cronLast>>
         ELSE IF RateLimitExceeded(now, cronLast, MIN_INTERVAL_cron)
         THEN /\ last' = Answer("cron", method, secret, 429, "false", "none",
                                <<>>, NoCycle(store))
              /\ UNCHANGED <<store, cronLast>>
         ELSE \E o \in Outcomes :
                LET c == Cycle_cron(store, now, o)
                IN  /\ cronLast' = now
                    /\ store' = c.store
                    /\ last' = IF c.error # "none"
                               THEN Answer("cron", method, secret, 500, "false",
                                           "none", <<>>, c)
                               ELSE Answer("cron", method, secret, 200, "true",
                                           "none", <<>>, c)
    /\ nreq' = nreq + 1
    /\ UNCHANGED <<now, lastScrapeTime, scrapeLast, cronCjsLast, inv,
                   env, rateLimitMap, admits, call>>

Next ==
    \/ Tick
    \/ RateLimitCleanup
    \/ Handler_events
    \/ Handler_events_cjs
    \/ Handler_scrape
    \/ Handler_scrape_cjs
    \/ Handler_cron_cjs
    \/ Handler_cron

Spec == Init /\ [][Next]_vars

\* api/events.js alone: the read service that scrapes on a stale read
NextEvents ==
    \/ Tick
    \/ RateLimitCleanup
    \/ Handler_events

SpecEvents == Init /\ [][NextEvents]_vars

\* the two cron functions: earthph-cron-cjs.js and earthph-cron.js
NextCron ==
    \/ Tick
    \/ Handler_cron_cjs
    \/ Handler_cron

SpecCron == Init /\ [][NextCron]_vars

\* the two scrape endpoints: scrape.js and scrape-cjs.js
NextScrape ==
    \/ Tick
    \/ Handler_scrape
    \/ Handler_scrape_cjs

SpecScrape == Init /\ [][NextScrape]_vars

\* handlers that ask for the secret header, EARTHPH_CRON_SECRET not set
\* (earthph-cron-cjs.js compares the header as earthph-cron.js does)
NextProtected ==
    \/ Tick
    \/ Handler_scrape_cjs
    \/ Handler_cron

SpecUnconfigured == InitUnconfigured /\ [][NextProtected]_vars

\* the read handler of api/events-cjs.js beside the trigger that fills its
\* table
NextRead ==
    \/ Tick
    \/ Handler_scrape_cjs
    \/ Handler_events_cjs

SpecRead == Init /\ [][NextRead]_vars


----------------------------------------------------------------------------
(* Two overlapping invocations of api/scrape-cjs.js.  Each store call is   *)
(* atomic; between the calls of one invocation the other may run and the   *)
(* clock may advance.  inv.before is the table when the two began, inv.c   *)
(* what each invocation has done so far.                                   *)

InvIds == {1, 2}

Idle ==
    [pc |-> "idle", batch |-> <<>>, upsertOk |-> FALSE, tu |-> 0,
     sweepOk |-> FALSE, ts |-> 0]

InitPair ==
    /\ now = StartTime
    /\ store \in PriorStores
    /\ lastScrapeTime = 0
    /\ scrapeLast = 0
    /\ cronLast = 0
    /\ cronCjsLast = 0
    /\ nreq = 0
    /\ last = NoAnswer
    /\ inv = [before |-> store, c |-> [i \in InvIds |-> Idle]]
    /\ env = "set"
    /\ rateLimitMap = [h \in {"events", "events_cjs"} |-> [ip \in IPs |-> <<>>]]
    /\ admits = {}
    /\ call = NoCall

\* axios.get and the extraction: the batch uniqueEvents, or the catch block
Scrape_cjs_Fetch(i) ==
    /\ inv.c[i].pc = "idle"
    /\ \E o \in Outcomes :
         LET c == Cycle_scrape_cjs(store, now, o)
         IN  inv' = [inv EXCEPT !.c[i] =
                        IF c.error = "fetch" THEN [@ EXCEPT !.pc = "failed"]
                        ELSE [@ EXCEPT !.pc = "parsed",
                                       !.batch = DedupMap(c.parsed)]]
    /\ UNCHANGED <<now, store, lastScrapeTime, scrapeLast, cronLast,
                   cronCjsLast, nreq, last,
                   env, rateLimitMap, admits, call>>

\* supabase.from('events').upsert(uniqueEvents), skipped for an empty batch
Scrape_cjs_Upsert(i) ==
    /\ inv.c[i].pc = "parsed"
    /\ IF Len(inv.c[i].batch) = 0
       THEN /\ inv' = [inv EXCEPT !.c[i].pc = "upserted"]
            /\ UNCHANGED store
       ELSE \E dbOk \in BOOLEAN :
              LET c == AfterUpsert(NoCycle(store), store, inv.c[i].batch, now,
                                   [dbOk |-> dbOk])
              IN  /\ store' = c.store
                  /\ inv' = [inv EXCEPT !.c[i] =
                                [@ EXCEPT !.pc = IF c.upsertOk THEN "upserted"
                                                 ELSE "failed",
                                          !.upsertOk = c.upsertOk,
                                          !.tu = now]]
    /\ UNCHANGED <<now, lastScrapeTime, scrapeLast, cronLast, cronCjsLast,
                   nreq, last, env, rateLimitMap, admits, call>>

\* supabase.from('events').delete().lt('occurred_at', cutoff)
Scrape_cjs_Sweep(i) ==
    /\ inv.c[i].pc = "upserted"
    /\ \E delOk \in BOOLEAN :
         LET c == AfterSweep(NoCycle(store), "occurred_at", now,
                             [delOk |-> delOk], FALSE)
         IN  /\ store' = c.store
             /\ inv' = [inv EXCEPT !.c[i] =
                           [@ EXCEPT !.pc = "done", !.sweepOk = c.sweepOk,
                                     !.ts = now]]
    /\ UNCHANGED <<now, lastScrapeTime, scrapeLast, cronLast, cronCjsLast,
                   nreq, last, env, rateLimitMap, admits, call>>

Fetch == \E i \in InvIds : Scrape_cjs_Fetch(i)
UpsertCall == \E i \in InvIds : Scrape_cjs_Upsert(i)
SweepCall == \E i \in InvIds : Scrape_cjs_Sweep(i)

NextPair ==
    \/ Tick
    \/ Fetch
    \/ UpsertCall
    \/ SweepCall

SpecPair == InitPair /\ [][NextPair]_vars

----------------------------------------------------------------------------
(* The DateTime Normalizer on the text of the timestamp cell.  The text is *)
(* given by its parts: sep, the number of " - " separators; the day, month *)
(* and year tokens of the date; the hour and minute digits and the AM/PM   *)
(* mark of the time.  A token of digits is its number, any other token is  *)
(* GARBAGE; a missing mark is "none".  An instant is counted in minutes    *)
(* from 1 January of BaseYear, 00:00 UTC.                                  *)

BaseYear == 2023

monthMap ==
    [January |-> 0, February |-> 1, March |-> 2, April |-> 3, May |-> 4,
     June |-> 5, July |-> 6, August |-> 7, September |-> 8, October |-> 9,
     November |-> 10, December |-> 11]

IsLeap(y) == (y % 4 = 0 /\ y % 100 # 0) \/ y % 400 = 0

\* month counted from 0, as in Date.UTC
DaysInMonth(y, m) ==
    IF m = 1 THEN (IF IsLeap(y) THEN 29 ELSE 28)
    ELSE IF m \in {3, 5, 8, 10} THEN 30 ELSE 31

RECURSIVE DaysBeforeMonth(_, _)
DaysBeforeMonth(y, m) ==
    IF m = 0 THEN 0 ELSE DaysBeforeMonth(y, m - 1) + DaysInMonth(y, m - 1)

RECURSIVE DaysBeforeYear(_)
DaysBeforeYear(y) ==
    IF y <= BaseYear THEN 0
    ELSE DaysBeforeYear(y - 1) + (IF IsLeap(y - 1) THEN 366 ELSE 365)

\* Date.UTC(year, month, day, hours, minutes): days and hours past the end
\* of their month or day carry over
DateUTC(year, month, day, hours, minutes) ==
    ((DaysBeforeYear(year) + DaysBeforeMonth(year, month) + (day - 1)) * 24
      + hours) * 60 + minutes

\* the first day of a year, also of the year before BaseYear
YearStart(y) ==
    IF y >= BaseYear THEN DaysBeforeYear(y)
    ELSE 0 - (IF IsLeap(y) THEN 366 ELSE 365)

\* date.toISOString(): the UTC fields of an instant
toISOString(ms) ==
    LET days == ms \div (24 * 60)
        rest == ms % (24 * 60)
        y == CHOOSE x \in (BaseYear - 1)..(BaseYear + 3) :
                YearStart(x) <= days /\ days < YearStart(x + 1)
        inYear == days - YearStart(y)
        m == CHOOSE x \in 0..11 :
                /\ DaysBeforeMonth(y, x) <= inYear
                /\ inYear < DaysBeforeMonth(y, x) + DaysInMonth(y, x)
    IN  [year |-> y, month |-> m + 1, day |-> inYear - DaysBeforeMonth(y, m) + 1,
         hours |-> rest \div 60, minutes |-> rest % 60]

\* To24Hour gone wrong: 12 PM is taken for 24
To24Hour_noon(hours, meridiem) ==
    IF meridiem = "PM" THEN hours + 12
    ELSE IF meridiem = "AM" /\ hours = 12 THEN 0
    ELSE hours

\* if (meridiem === 'PM' && hours !== 12) hours += 12;
\* if (meridiem === 'AM' && hours === 12) hours = 0;
To24Hour(hours, meridiem) ==
    IF meridiem = "PM" /\ hours # 12 THEN hours + 12
    ELSE IF meridiem = "AM" /\ hours = 12 THEN 0
    ELSE hours

toUpperCase(m) == IF m = "am" THEN "AM" ELSE IF m = "pm" THEN "PM" ELSE m

\* timePart.match(/(\d{1,2}):(\d{2})\s*(AM|PM)/i)
TimeMatches(str) ==
    str.hour # GARBAGE /\ str.minute # GARBAGE /\ str.mer # "none"

\* new Date(Date.UTC(...)); setUTCHours(getUTCHours() - 8); toISOString()
MinusEightHours(year, month, day, str) ==
    toISOString(DateUTC(year, month, day,
                        To24Hour(str.hour, toUpperCase(str.mer)), str.minute)
                - 8 * 60)

\* api/events.js: split(' - ') must give two parts, the date is matched by
\* /(\d{1,2})\s+(\w+)\s+(\d{4})/
parsePhivolcsDateTime_events(str) ==
    IF str.sep # 1 THEN NULL
    ELSE IF str.day = GARBAGE \/ str.year = GARBAGE THEN NULL
    ELSE IF str.month \notin DOMAIN monthMap THEN NULL
    ELSE IF ~TimeMatches(str) THEN NULL
    ELSE MinusEightHours(str.year, monthMap[str.month], str.day, str)

\* api/scrape-cjs.js and the cron handlers: the first two parts of
\* split(' - '), the date split at blanks; months counted from 1
parsePhivolcsDateTime_cjs(str) ==
    IF str.sep = 0 THEN NULL
    ELSE LET day == IF str.day = GARBAGE THEN NaN ELSE str.day
             year == IF str.year = GARBAGE THEN NaN ELSE str.year
             month == IF str.month \in DOMAIN monthMap
                      THEN monthMap[str.month] + 1 ELSE NULL
         IN  IF month = NULL \/ day \in {NaN, 0} \/ year \in {NaN, 0} THEN NULL
             ELSE IF ~TimeMatches(str) THEN NULL
             ELSE MinusEightHours(year, month - 1, day, str)

\* timestamp cells: the parts they are drawn from
Strings ==
    [sep : {0, 1}, day : {1, 28, 29, 30, 31, GARBAGE},
     month : {"January", "February", "March", "November", "December", "Smarch"},
     year : {BaseYear + 1, BaseYear + 2},
     hour : (1..13) \cup {GARBAGE}, minute : {0, 12, 59, GARBAGE},
     mer : {"AM", "PM", "pm", "none"}]

InitParse ==
    /\ now = StartTime
    /\ store = {}
    /\ lastScrapeTime = 0
    /\ scrapeLast = 0
    /\ cronLast = 0
    /\ cronCjsLast = 0
    /\ nreq = 0
    /\ last = NoAnswer
    /\ inv = <<>>
    /\ env = "set"
    /\ rateLimitMap = [h \in {"events", "events_cjs"} |-> [ip \in IPs |-> <<>>]]
    /\ admits = {}
    /\ call \in {[fn |-> "text", arg |-> str] : str \in Strings}

\* the row callback of api/events.js calls parsePhivolcsDateTime(dateTimeStr)
Normalize_events ==
    /\ call.fn = "text"
    /\ call' = [fn |-> "events", arg |-> call.arg,
                out |-> parsePhivolcsDateTime_events(call.arg)]
    /\ UNCHANGED <<now, store, lastScrapeTime, scrapeLast, cronLast, cronCjsLast,
                   nreq, last, inv, env, rateLimitMap, admits>>

\* the row callback of api/scrape-cjs.js calls parsePhivolcsDateTime(dateText)
Normalize_cjs ==
    /\ call.fn = "text"
    /\ call' = [fn |-> "cjs", arg |-> call.arg,
                out |-> parsePhivolcsDateTime_cjs(call.arg)]
    /\ UNCHANGED <<now, store, lastScrapeTime, scrapeLast, cronLast, cronCjsLast,
                   nreq, last, inv, env, rateLimitMap, admits>>

NextParse ==
    \/ Normalize_events
    \/ Normalize_cjs

SpecParse == InitParse /\ [][NextParse]_vars

----------------------------------------------------------------------------
(* The row loop of api/scrape.js on its own: $('table tbody tr').each with *)
(* the counter skippedRows, on documents of the rows that api/scrape.js    *)
(* tells apart.                                                            *)

MaxRowsParsed == 3      \* rows of a document given to the row loop

ShortRow == [IsoRow EXCEPT !.cells = 4]            \* a row of four cells
IsoOutRow == [IsoRow EXCEPT !.lat = 500000, !.lon = 2000000]
IsoBadMagRow == [IsoRow EXCEPT !.mag = GARBAGE]    \* magnitude "N/A"

RowPool_scrape == {Header, IsoRow, IsoOutRow, IsoBadMagRow, ShortRow, E1}

RECURSIVE RowsUpTo(_)
RowsUpTo(n) == IF n = 0 THEN {<<>>}
               ELSE RowsUpTo(n - 1) \cup
                    {Append(b, r) : b \in {x \in RowsUpTo(n - 1) : Len(x) = n - 1},
                                    r \in RowPool_scrape}

\* RowStep_scrape gone wrong: a row outside the box is dropped uncounted
RowStep_scrape_silent(acc, r) ==
    IF r.cells # 6
    THEN [acc EXCEPT !.skippedRows = @ + 1]
    ELSE IF \/ parsePhivolcsDateTime_scrape(r.dt) = NULL
            \/ parseFloat(r.lat) = NaN \/ parseFloat(r.lon) = NaN
            \/ parseFloat(r.mag) = NaN
    THEN [acc EXCEPT !.skippedRows = @ + 1]
    ELSE IF \/ parseFloat(r.lat) < 45000 \/ parseFloat(r.lat) > 210000
            \/ parseFloat(r.lon) < 1160000 \/ parseFloat(r.lon) > 1270000
    THEN acc
    ELSE [acc EXCEPT !.events = Append(@, Event_scrape(r))]

\* one call of the row callback: three ways to skip a row, each counted,
\* or the record is pushed
RowStep_scrape(acc, r) ==
    IF r.cells # 6
    THEN [acc EXCEPT !.skippedRows = @ + 1]
    ELSE IF \/ parsePhivolcsDateTime_scrape(r.dt) = NULL
            \/ parseFloat(r.lat) = NaN \/ parseFloat(r.lon) = NaN
            \/ parseFloat(r.mag) = NaN
    THEN [acc EXCEPT !.skippedRows = @ + 1]
    ELSE IF \/ parseFloat(r.lat) < 45000 \/ parseFloat(r.lat) > 210000
            \/ parseFloat(r.lon) < 1160000 \/ parseFloat(r.lon) > 1270000
    THEN [acc EXCEPT !.skippedRows = @ + 1]
    ELSE [acc EXCEPT !.events = Append(@, Event_scrape(r))]

RECURSIVE ParseRows_scrape(_, _)
ParseRows_scrape(doc, n) ==
    IF n = 0 THEN [events |-> <<>>, skippedRows |-> 0]
    ELSE RowStep_scrape(ParseRows_scrape(doc, n - 1), doc[n])

InitRows ==
    /\ now = StartTime
    /\ store = {}
    /\ lastScrapeTime = 0
    /\ scrapeLast = 0
    /\ cronLast = 0
    /\ cronCjsLast = 0
    /\ nreq = 0
    /\ last = NoAnswer
    /\ inv = <<>>
    /\ env = "set"
    /\ rateLimitMap = [h \in {"events", "events_cjs"} |-> [ip \in IPs |-> <<>>]]
    /\ admits = {}
    /\ call \in {[fn |-> "rows", arg |-> d] : d \in RowsUpTo(MaxRowsParsed)}

\* api/scrape.js, Step 2: the row loop and what the answer reports of it
Rows_scrape ==
    /\ call.fn = "rows"
    /\ LET parsed == ParseRows_scrape(call.arg, Len(call.arg))
       IN  call' = [fn |-> "scrape", arg |-> call.arg, events |-> parsed.events,
                    events_count |-> Len(parsed.events),
                    skipped_rows |-> parsed.skippedRows]
    /\ UNCHANGED <<now, store, lastScrapeTime, scrapeLast, cronLast, cronCjsLast,
                   nreq, last, inv, env, rateLimitMap, admits>>

NextRows ==
    \/ Rows_scrape

SpecRows == InitRows /\ [][NextRows]_vars

-----------------------------------------------------------------------------
(* One read request of api/events.js step by step.  The handler runs      *)
(* without interruption up to its first await; call is the request in     *)
(* flight: call.pc the await it is parked on, call.fetches the calls of    *)
(* axios.get made for it, call.waited the time the pending fetch has       *)
(* taken, call.responses the answers sent for it.                          *)

\* axios.get(..., { timeout: 8000 }), in units of four seconds
AXIOS_TIMEOUT == 2

\* the documents PHIVOLCS answers a request with: the header and at most a row
RequestDocs == {d \in Docs : Len(d) <= 2}

IdleRequest ==
    [fn |-> "read", pc |-> "idle", method |-> "none", T |-> 0,
     fetches |-> 0, waited |-> 0, fetch |-> "none", batch |-> <<>>,
     responses |-> 0, status |-> 0]

InitRequest ==
    /\ now = StartTime
    /\ store = {}
    /\ lastScrapeTime = 0
    /\ scrapeLast = 0
    /\ cronLast = 0
    /\ cronCjsLast = 0
    /\ nreq = 0
    /\ last = NoAnswer
    /\ inv = <<>>
    /\ env = "set"
    /\ rateLimitMap = [h \in {"events", "events_cjs"} |-> [ip \in IPs |-> <<>>]]
    /\ admits = {}
    /\ call = IdleRequest

\* res.status(status).json(...) or .end(): the handler returns
Respond(r, status) ==
    [r EXCEPT !.pc = "responded", !.status = status,
              !.responses = r.responses + 1]

\* the request arrives: limiter, method, staleness of the cache, up to the
\* await of scrapeAndStore (which runs to its axios.get) or of the query
Read_Receive ==
    /\ call.pc \in {"idle", "responded"}
    /\ nreq < MaxRequests
    /\ \E ip \in IPs, method \in Methods :
         LET rateCheck == checkRateLimit(rateLimitMap.events, ip, now,
                                         MAX_REQUESTS_PER_MINUTE)
             r == [IdleRequest EXCEPT !.pc = "received", !.method = method,
                                      !.T = now]
             shouldRefresh == (now - lastScrapeTime) > CACHE_DURATION_MS
         IN  /\ rateLimitMap' = [rateLimitMap EXCEPT !.events = rateCheck.map]
             /\ admits' = IF rateCheck.allowed
                          THEN admits \cup {[h |-> "events", ip |-> ip,
                                             t |-> now, n |-> nreq + 1]}
                          ELSE admits
             /\ call' = IF ~rateCheck.allowed THEN Respond(r, 429)
                        ELSE IF method = "OPTIONS" THEN Respond(r, 200)
                        ELSE IF method # "GET" THEN Respond(r, 405)
                        ELSE IF shouldRefresh
                        THEN [r EXCEPT !.pc = "fetching", !.fetches = 1]
                        ELSE [r EXCEPT !.pc = "querying"]
    /\ nreq' = nreq + 1
    /\ UNCHANGED <<now, store, lastScrapeTime, scrapeLast, cronLast,
                   cronCjsLast, last, inv, env>>

\* FetchDeadline gone wrong: axios.get is called without a timeout
FetchDeadline_none(waited) == FALSE

\* the timeout of axios.get has run out
FetchDeadline(waited) == waited >= AXIOS_TIMEOUT

\* time passes while PHIVOLCS has not answered
Read_FetchWaits ==
    /\ call.pc = "fetching"
    /\ call.waited < AXIOS_TIMEOUT
    /\ ~FetchDeadline(call.waited)
    /\ call' = [call EXCEPT !.waited = call.waited + 1]
    /\ UNCHANGED <<now, store, lastScrapeTime, scrapeLast, cronLast,
                   cronCjsLast, nreq, last, inv, env, rateLimitMap, admits>>

\* scrapeAndStore caught the error of axios.get and returned; the handler
\* goes on: lastScrapeTime = now, then the query
AfterFetchFailed(r, result) ==
    [r EXCEPT !.pc = "querying", !.fetch = result]

\* PHIVOLCS answers before the timeout: an error, or a document, whose rows
\* scrapeAndStore reads up to the await of the upsert (or to its return
\* when no row is valid)
Read_FetchReturns ==
    /\ call.pc = "fetching"
    /\ ~FetchDeadline(call.waited)
    /\ \/ \E d \in RequestDocs :
            LET batch == DedupFirst(Extract_events(d))
            IN  IF Len(batch) = 0
                THEN /\ call' = [call EXCEPT !.pc = "querying", !.fetch = "ok"]
                     /\ lastScrapeTime' = call.T
                ELSE /\ call' = [call EXCEPT !.pc = "upserting", !.fetch = "ok",
                                             !.batch = batch]
                     /\ UNCHANGED lastScrapeTime
       \/ \E result \in {"unavailable", "error"} :
            /\ call' = AfterFetchFailed(call, result)
            /\ lastScrapeTime' = call.T
    /\ UNCHANGED <<now, store, scrapeLast, cronLast, cronCjsLast, nreq, last,
                   inv, env, rateLimitMap, admits>>

\* axios.get rejects with its timeout error
Read_FetchTimesOut ==
    /\ call.pc = "fetching"
    /\ FetchDeadline(call.waited)
    /\ call' = AfterFetchFailed(call, "timeout")
    /\ lastScrapeTime' = call.T
    /\ UNCHANGED <<now, store, scrapeLast, cronLast, cronCjsLast, nreq, last,
                   inv, env, rateLimitMap, admits>>

\* the store settles the upsert: on an error scrapeAndStore returns from
\* its catch block, otherwise it awaits the delete
Read_Upsert ==
    /\ call.pc = "upserting"
    /\ \E dbOk \in BOOLEAN :
         \E c \in {AfterUpsert(NoCycle(store), store, call.batch, now,
                               [dbOk |-> dbOk])} :
            /\ store' = c.store
            /\ IF c.upsertOk
               THEN /\ call' = [call EXCEPT !.pc = "sweeping", !.batch = <<>>]
                    /\ UNCHANGED lastScrapeTime
               ELSE /\ call' = [call EXCEPT !.pc = "querying", !.batch = <<>>]
                    /\ lastScrapeTime' = call.T
    /\ UNCHANGED <<now, scrapeLast, cronLast, cronCjsLast, nreq, last, inv,
                   env, rateLimitMap, admits>>

\* the store settles the delete; scrapeAndStore returns, lastScrapeTime = now
Read_Sweep ==
    /\ call.pc = "sweeping"
    /\ \E delOk \in BOOLEAN :
         store' = AfterSweep(NoCycle(store), "created_at", now,
                             [delOk |-> delOk], FALSE).store
    /\ lastScrapeTime' = call.T
    /\ call' = [call EXCEPT !.pc = "querying"]
    /\ UNCHANGED <<now, scrapeLast, cronLast, cronCjsLast, nreq, last, inv,
                   env, rateLimitMap, admits>>

\* the select settles: 200 with the rows, or the catch block's 500
Read_Query ==
    /\ call.pc = "querying"
    /\ \E queryOk \in BOOLEAN :
         call' = Respond(call, IF queryOk THEN 200
                               ELSE ErrorAnswer_events.status)
    /\ UNCHANGED <<now, store, lastScrapeTime, scrapeLast, cronLast,
                   cronCjsLast, nreq, last, inv, env, rateLimitMap, admits>>

NextRequest ==
    \/ Tick
    \/ Read_Receive
    \/ Read_FetchWaits
    \/ Read_FetchReturns
    \/ Read_FetchTimesOut
    \/ Read_Upsert
    \/ Read_Sweep
    \/ Read_Query

SpecRequest == InitRequest /\ [][NextRequest]_vars

\* Time passes, a timer that has run out fires, the store settles the calls
\* made to it, and the event loop resumes a handler whose await has settled.
\* Nothing is assumed of PHIVOLCS.
SpecRequestLive ==
    /\ SpecRequest
    /\ WF_vars(Read_FetchWaits)
    /\ WF_vars(Read_FetchTimesOut)
    /\ WF_vars(Read_Upsert)
    /\ WF_vars(Read_Sweep)
    /\ WF_vars(Read_Query)

-----------------------------------------------------------------------------
(* Two overlapping read requests of api/events.js in one process.  A       *)
(* request runs without interruption up to an await; while it is parked on *)
(* `await scrapeAndStore(...)` or on the query the other may run and the   *)
(* clock may advance.  inv.r[i].seen is the lastScrapeTime the request     *)
(* compared the clock with, inv.r[i].started whether it called             *)
(* scrapeAndStore.                                                         *)

IdleReader ==
    [pc |-> "idle", T |-> 0, seen |-> 0, started |-> FALSE, status |-> 0]

\* what a cycle of a read request meets: a fetch that fails, or one of the
\* documents of RequestDocs and a store that serves or refuses its calls
RequestOutcomes ==
    {o \in Outcomes : o.fetch # "ok" \/ o.doc \in RequestDocs}

InitReaders ==
    /\ now = StartTime
    /\ store = {}
    /\ lastScrapeTime = 0
    /\ scrapeLast = 0
    /\ cronLast = 0
    /\ cronCjsLast = 0
    /\ nreq = 0
    /\ last = NoAnswer
    /\ inv = [r |-> [i \in InvIds |-> IdleReader]]
    /\ env = "set"
    /\ rateLimitMap = [h \in {"events", "events_cjs"} |-> [ip \in IPs |-> <<>>]]
    /\ admits = {}
    /\ call = NoCall

\* the request arrives: limiter, method, const now = Date.now(),
\* shouldRefresh; the handler parks on scrapeAndStore or on the query
Reader_Receive(i) ==
    /\ inv.r[i].pc = "idle"
    /\ \E ip \in IPs, method \in Methods :
         LET rateCheck == checkRateLimit(rateLimitMap.events, ip, now,
                                         MAX_REQUESTS_PER_MINUTE)
             shouldRefresh == (now - lastScrapeTime) > CACHE_DURATION_MS
             r == [IdleReader EXCEPT !.T = now, !.seen = lastScrapeTime]
         IN  /\ rateLimitMap' = [rateLimitMap EXCEPT !.events = rateCheck.map]
             /\ admits' = IF rateCheck.allowed
                          THEN admits \cup {[h |-> "events", ip |-> ip,
                                             t |-> now, n |-> nreq + 1]}
                          ELSE admits
             /\ inv' = [inv EXCEPT !.r[i] =
                          IF ~rateCheck.allowed
                          THEN [r EXCEPT !.pc = "responded", !.status = 429]
                          ELSE IF method = "OPTIONS"
                          THEN [r EXCEPT !.pc = "responded", !.status = 200]
                          ELSE IF method # "GET"
                          THEN [r EXCEPT !.pc = "responded", !.status = 405]
                          ELSE IF shouldRefresh
                          THEN [r EXCEPT !.pc = "scraping", !.started = TRUE]
                          ELSE [r EXCEPT !.pc = "querying"]]
    /\ nreq' = nreq + 1
    /\ UNCHANGED <<now, store, lastScrapeTime, scrapeLast, cronLast,
                   cronCjsLast, last, env, call>>

\* scrapeAndStore settles; then lastScrapeTime = now, the now of the arrival
Reader_Scrape(i) ==
    /\ inv.r[i].pc = "scraping"
    /\ \E c \in {scrapeAndStore(store, now, o) : o \in RequestOutcomes} :
         store' = c.store
    /\ lastScrapeTime' = inv.r[i].T
    /\ inv' = [inv EXCEPT !.r[i].pc = "querying"]
    /\ UNCHANGED <<now, scrapeLast, cronLast, cronCjsLast, nreq, last, env,
                   rateLimitMap, admits, call>>

\* the select settles: 200 with the rows, or the catch block's 500
Reader_Query(i) ==
    /\ inv.r[i].pc = "querying"
    /\ \E queryOk \in BOOLEAN :
         inv' = [inv EXCEPT !.r[i] =
                    [@ EXCEPT !.pc = "responded",
                              !.status = IF queryOk THEN 200
                                         ELSE ErrorAnswer_events.status]]
    /\ UNCHANGED <<now, store, lastScrapeTime, scrapeLast, cronLast,
                   cronCjsLast, nreq, last, env, rateLimitMap, admits, call>>

Receive == \E i \in InvIds : Reader_Receive(i)
ScrapeSettles == \E i \in InvIds : Reader_Scrape(i)
QuerySettles == \E i \in InvIds : Reader_Query(i)

NextReaders ==
    \/ Tick
    \/ Receive
    \/ ScrapeSettles
    \/ QuerySettles

SpecReaders == InitReaders /\ [][NextReaders]_vars

-----------------------------------------------------------------------------
(* Two overlapping invocations of a gated trigger (api/scrape.js or        *)
(* api/earthph-cron.js) in one process.  An invocation runs without        *)
(* interruption up to its first await, axios.get; while it is parked there *)
(* the other may run and the clock may advance.  inv.t[i].passed says that *)
(* the invocation passed the gate, inv.t[i].n is its place in the order of *)
(* arrival, inv.t[i].sawFailed that a cycle had failed when it arrived.    *)

GatedTriggers == {"scrape", "cron"}

IdleTrigger ==
    [pc |-> "idle", h |-> "none", n |-> 0, T |-> 0, atGate |-> FALSE,
     passed |-> FALSE, failed |-> FALSE, sawFailed |-> FALSE, status |-> 0]

\* the outcomes a cycle of a trigger meets, on the documents of RequestDocs
TriggerOutcomes ==
    {o \in Outcomes : o.fetch # "ok" \/ o.doc \in RequestDocs}

InitTriggers ==
    /\ now = StartTime
    /\ store = {}
    /\ lastScrapeTime = 0
    /\ scrapeLast = 0
    /\ cronLast = 0
    /\ cronCjsLast = 0
    /\ nreq = 0
    /\ last = NoAnswer
    /\ inv = [t |-> [i \in InvIds |-> IdleTrigger]]
    /\ env = "set"
    /\ rateLimitMap = [h \in {"events", "events_cjs"} |-> [ip \in IPs |-> <<>>]]
    /\ admits = {}
    /\ call = NoCall

\* GateStamp gone wrong: the timestamp is left for after the cycle
GateStamp_late(lastTime, t) == lastTime

\* lastScrapeTime = now / lastRun = Date.now(), right after the interval
\* check and before the first await
GateStamp(lastTime, t) == t

\* CycleStamp gone wrong: a failed cycle opens the gate again
CycleStamp_reopens(c, lastTime) == IF c.error # "none" THEN 0 ELSE lastTime

\* neither the try block nor the catch block writes the timestamp
CycleStamp(c, lastTime) == lastTime

\* the invocation up to its first await: method or secret, the interval
\* check, the timestamp
Arrived(i, h) ==
    [IdleTrigger EXCEPT !.h = h, !.n = nreq + 1, !.T = now,
        !.sawFailed = \E k \in InvIds : inv.t[k].h = h /\ inv.t[k].failed]

\* api/scrape.js, up to await axios.get
Trigger_scrape_Receive(i) ==
    /\ inv.t[i].pc = "idle"
    /\ \E method \in Methods :
         LET r == Arrived(i, "scrape")
         IN  IF method = "OPTIONS"
             THEN /\ inv' = [inv EXCEPT !.t[i] =
                               [r EXCEPT !.pc = "responded", !.status = 200]]
                  /\ UNCHANGED scrapeLast
             ELSE IF method # "GET"
             THEN /\ inv' = [inv EXCEPT !.t[i] =
                               [r EXCEPT !.pc = "responded", !.status = 405]]
                  /\ UNCHANGED scrapeLast
             ELSE IF RateLimitExceeded(now, scrapeLast, MIN_INTERVAL_scrape)
             THEN /\ inv' = [inv EXCEPT !.t[i] =
                               [r EXCEPT !.pc = "responded", !.status = 429,
                                         !.atGate = TRUE]]
                  /\ UNCHANGED scrapeLast
             ELSE /\ inv' = [inv EXCEPT !.t[i] =
                               [r EXCEPT !.pc = "running", !.atGate = TRUE,
                                         !.passed = TRUE]]
                  /\ scrapeLast' = GateStamp(scrapeLast, now)
    /\ nreq' = nreq + 1
    /\ UNCHANGED <<now, store, lastScrapeTime, cronLast, cronCjsLast, last,
                   env, rateLimitMap, admits, call>>

\* api/earthph-cron.js, up to await axios.get
Trigger_cron_Receive(i) ==
    /\ inv.t[i].pc = "idle"
    /\ \E secret \in Secrets :
         LET r == Arrived(i, "cron")
         IN  IF SecretDiffers(secret, env)
             THEN /\ inv' = [inv EXCEPT !.t[i] =
                               [r EXCEPT !.pc = "responded", !.status = 401]]
                  /\ UNCHANGED cronLast
             ELSE IF RateLimitExceeded(now, cronLast, MIN_INTERVAL_cron)
             THEN /\ inv' = [inv EXCEPT !.t[i] =
                               [r EXCEPT !.pc = "responded", !.status = 429,
                                         !.atGate = TRUE]]
                  /\ UNCHANGED cronLast
             ELSE /\ inv' = [inv EXCEPT !.t[i] =
                               [r EXCEPT !.pc = "running", !.atGate = TRUE,
                                         !.passed = TRUE]]
                  /\ cronLast' = GateStamp(cronLast, now)
    /\ nreq' = nreq + 1
    /\ UNCHANGED <<now, store, lastScrapeTime, scrapeLast, cronCjsLast, last,
                   env, rateLimitMap, admits, call>>

\* the rest of the try block of api/scrape.js, or its catch block
Trigger_scrape_Cycle(i) ==
    /\ inv.t[i].pc = "running"
    /\ inv.t[i].h = "scrape"
    /\ \E c \in {Cycle_scrape(store, now, o) : o \in TriggerOutcomes} :
         /\ store' = c.store
         /\ scrapeLast' = CycleStamp(c, scrapeLast)
         /\ inv' = [inv EXCEPT !.t[i] =
                      [@ EXCEPT !.pc = "responded",
                                !.failed = (c.error # "none"),
                                !.status = IF c.error # "none"
                                           THEN ErrorStatus_scrape(c)
                                           ELSE 200]]
    /\ UNCHANGED <<now, lastScrapeTime, cronLast, cronCjsLast, nreq, last,
                   env, rateLimitMap, admits, call>>

\* the rest of the try block of api/earthph-cron.js, or its catch block
Trigger_cron_Cycle(i) ==
    /\ inv.t[i].pc = "running"
    /\ inv.t[i].h = "cron"
    /\ \E c \in {Cycle_cron(store, now, o) : o \in TriggerOutcomes} :
         /\ store' = c.store
         /\ cronLast' = CycleStamp(c, cronLast)
         /\ inv' = [inv EXCEPT !.t[i] =
                      [@ EXCEPT !.pc = "responded",
                                !.failed = (c.error # "none"),
                                !.status = IF c.error # "none" THEN 500
                                           ELSE 200]]
    /\ UNCHANGED <<now, lastScrapeTime, scrapeLast, cronCjsLast, nreq, last,
                   env, rateLimitMap, admits, call>>

ScrapeArrives == \E i \in InvIds : Trigger_scrape_Receive(i)
CronArrives == \E i \in InvIds : Trigger_cron_Receive(i)
ScrapeCycle == \E i \in InvIds : Trigger_scrape_Cycle(i)
CronCycle == \E i \in InvIds : Trigger_cron_Cycle(i)

NextTriggers ==
    \/ Tick
    \/ ScrapeArrives
    \/ CronArrives
    \/ ScrapeCycle
    \/ CronCycle

SpecTriggers == InitTriggers /\ [][NextTriggers]_vars

-----------------------------------------------------------------------------
(* The request limiter of api/events.js on its own: calls of               *)
(* checkRateLimit and runs of the cleanup timer.  call.shadow is the map   *)
(* as it would be had the cleanup never run, call.shadowAllowed and        *)
(* call.shadowRemaining what checkRateLimit answers on it; call.denied are *)
(* the requests refused so far, call.cleaned whether the cleanup had taken *)
(* something out of the map when the call was made.  The cap is a constant *)
(* of the program; call.max is its scaled value, one of 1..MaxCap, so that *)
(* the remaining count takes more than one value.                          *)

MaxChecks == 5          \* calls of checkRateLimit in a behaviour
MaxCap == 2             \* largest scaled MAX_REQUESTS_PER_MINUTE

InitLimiter ==
    /\ now = StartTime
    /\ store = {}
    /\ lastScrapeTime = 0
    /\ scrapeLast = 0
    /\ cronLast = 0
    /\ cronCjsLast = 0
    /\ nreq = 0
    /\ last = NoAnswer
    /\ inv = <<>>
    /\ env = "set"
    /\ rateLimitMap = [h \in {"events", "events_cjs"} |-> [ip \in IPs |-> <<>>]]
    /\ admits = {}
    /\ \E max \in 1..MaxCap :
         call = [fn |-> "limiter", max |-> max, n |-> 0, ip |-> "none", T |-> 0,
               allowed |-> TRUE, remaining |-> 0, cleaned |-> FALSE,
               shadow |-> [ip \in IPs |-> <<>>],
               shadowAllowed |-> TRUE, shadowRemaining |-> 0, denied |-> {}]

\* const rateCheck = checkRateLimit(clientIp)
Limiter_Check ==
    /\ nreq < MaxChecks
    /\ \E ip \in IPs :
         LET rateCheck == checkRateLimit(rateLimitMap.events, ip, now,
                                         call.max)
             shadowCheck == checkRateLimit(call.shadow, ip, now,
                                           call.max)
         IN  /\ rateLimitMap' = [rateLimitMap EXCEPT !.events = rateCheck.map]
             /\ admits' = IF rateCheck.allowed
                          THEN admits \cup {[h |-> "events", ip |-> ip,
                                             t |-> now, n |-> nreq + 1]}
                          ELSE admits
             /\ call' = [fn |-> "limiter", max |-> call.max, n |-> nreq + 1,
                         ip |-> ip, T |-> now,
                         cleaned |-> rateLimitMap.events # call.shadow,
                         allowed |-> rateCheck.allowed,
                         remaining |-> rateCheck.remaining,
                         shadow |-> shadowCheck.map,
                         shadowAllowed |-> shadowCheck.allowed,
                         shadowRemaining |-> shadowCheck.remaining,
                         denied |-> IF rateCheck.allowed THEN call.denied
                                    ELSE call.denied \cup {[ip |-> ip, t |-> now]}]
    /\ nreq' = nreq + 1
    /\ UNCHANGED <<now, store, lastScrapeTime, scrapeLast, cronLast,
                   cronCjsLast, last, inv, env>>

NextLimiter ==
    \/ Tick
    \/ RateLimitCleanup
    \/ Limiter_Check

SpecLimiter == InitLimiter /\ [][NextLimiter]_vars

-----------------------------------------------------------------------------
(* The row loops of api/events.js and api/scrape-cjs.js on their own, on   *)
(* documents of the rows that the two loops tell apart.  Accepted_* are    *)
(* the rows whose callback pushes a record, in the order of the document.  *)

MaxRowsExtracted == 2   \* rows after the header row

WideRow == [E1 EXCEPT !.cells = 7]                 \* a seventh <td> after the six
EmptyLonRow == [E1 EXCEPT !.lon = EMPTY]
EmptyDepthRow == [E1 EXCEPT !.depth = EMPTY, !.loc = ""]
BadMagRow == [E1 EXCEPT !.mag = GARBAGE]           \* magnitude "N/A"
InfiniteMagRow == [E1 EXCEPT !.mag = Infinity]     \* magnitude "Infinity"
ZeroDepthRow == [E1 EXCEPT !.depth = 0]            \* depth "000"
BadDepthRow == [E1 EXCEPT !.depth = GARBAGE]       \* depth "-"
NearRow == [E1 EXCEPT !.lat = 146004]              \* 14.6004 N

RowPool_extract ==
    {E1, E1m, ShortRow, WideRow, EmptyLonRow, EmptyDepthRow, BadMagRow,
     InfiniteMagRow, ZeroDepthRow, BadDepthRow, NearRow}

RECURSIVE BodiesUpTo(_)
BodiesUpTo(n) == IF n = 0 THEN {<<>>}
                 ELSE BodiesUpTo(n - 1) \cup
                      {Append(b, r) : b \in {x \in BodiesUpTo(n - 1) : Len(x) = n - 1},
                                      r \in RowPool_extract}

Accepted_events(doc) == SelectSeq(doc, LAMBDA r : RowOk_events(r))

Accepted_cjs(doc, ageFilter, t) ==
    LET ok == SelectSeq(Indices(doc), LAMBDA i : RowOk_cjs(doc, i, ageFilter, t))
    IN  [k \in 1..Len(ok) |-> doc[ok[k]]]

InitExtract ==
    /\ now = StartTime
    /\ store = {}
    /\ lastScrapeTime = 0
    /\ scrapeLast = 0
    /\ cronLast = 0
    /\ cronCjsLast = 0
    /\ nreq = 0
    /\ last = NoAnswer
    /\ inv = <<>>
    /\ env = "set"
    /\ rateLimitMap = [h \in {"events", "events_cjs"} |-> [ip \in IPs |-> <<>>]]
    /\ admits = {}
    /\ call \in {[fn |-> "rows", arg |-> <<Header>> \o b] :
                    b \in BodiesUpTo(MaxRowsExtracted)}

\* api/events.js: the .each loop of scrapeAndStore
Rows_events ==
    /\ call.fn = "rows"
    /\ call' = [fn |-> "events", arg |-> call.arg,
                rows |-> Accepted_events(call.arg),
                events |-> Extract_events(call.arg)]
    /\ UNCHANGED <<now, store, lastScrapeTime, scrapeLast, cronLast, cronCjsLast,
                   nreq, last, inv, env, rateLimitMap, admits>>

\* api/scrape-cjs.js: the .each loop of the handler
Rows_cjs ==
    /\ call.fn = "rows"
    /\ call' = [fn |-> "scrape_cjs", arg |-> call.arg,
                rows |-> Accepted_cjs(call.arg, TRUE, now),
                events |-> Extract_cjs(call.arg, TRUE, now)]
    /\ UNCHANGED <<now, store, lastScrapeTime, scrapeLast, cronLast, cronCjsLast,
                   nreq, last, inv, env, rateLimitMap, admits>>

NextExtract ==
    \/ Rows_events
    \/ Rows_cjs

SpecExtract == InitExtract /\ [][NextExtract]_vars

-----------------------------------------------------------------------------
(* The delete calls of the retention sweeps on their own, on tables whose  *)
(* rows occurred and were stored at any instants: api/events.js deletes by *)
(* created_at, api/scrape-cjs.js by occurred_at.                           *)

MaxStored == 2          \* rows of a table given to a sweep

StoredRow(i, occurred, created) ==
    [id |-> <<occurred, i, i>>, occurred_at |-> occurred, latitude |-> 145995,
     longitude |-> 1209842, depth_km |-> 10, magnitude |-> 32,
     location_text |-> "Nasugbu", created_at |-> created]

\* a table: at most one row per place i
Tables ==
    {{StoredRow(i, f[i][1], f[i][2]) : i \in DOMAIN f} :
        f \in UNION {[1..n -> (0..MaxTime) \X (0..MaxTime)] : n \in 0..MaxStored}}

InitRetention ==
    /\ now = StartTime
    /\ store \in Tables
    /\ lastScrapeTime = 0
    /\ scrapeLast = 0
    /\ cronLast = 0
    /\ cronCjsLast = 0
    /\ nreq = 0
    /\ last = NoAnswer
    /\ inv = <<>>
    /\ env = "set"
    /\ rateLimitMap = [h \in {"events", "events_cjs"} |-> [ip \in IPs |-> <<>>]]
    /\ admits = {}
    /\ call = [fn |-> "table"]

\* the delete call of a sweep, served or refused by the store
SweepOf(by) ==
    \E delOk \in BOOLEAN :
       LET c == AfterSweep(NoCycle(store), by, now, [delOk |-> delOk], FALSE)
       IN  /\ store' = c.store
           /\ call' = [fn |-> "sweep", by |-> by, T |-> now, ok |-> delOk,
                       deleted |-> c.deleted]
           /\ UNCHANGED <<now, lastScrapeTime, scrapeLast, cronLast,
                          cronCjsLast, nreq, last, inv, env, rateLimitMap,
                          admits>>

\* api/events.js: .delete().lt('created_at', cutoffTime)
Sweep_events == SweepOf("created_at")

\* api/scrape-cjs.js: .delete().lt('occurred_at', cutoffTime)
Sweep_scrape_cjs == SweepOf("occurred_at")

NextRetention ==
    \/ Tick
    \/ Sweep_events
    \/ Sweep_scrape_cjs

SpecRetention == InitRetention /\ [][NextRetention]_vars

----------------------------------------------------------------------------
(* Properties *)

\* the step is the handling of a request
Handled == last'.n = last.n + 1

\* the cycle of the last request ran to its end: no call threw, the store
\* served every call made
CycleOk(a) == a.ran /\ a.error = "none" /\ (a.sweepCalled => a.sweepOk)

Triggers == {"scrape", "scrape_cjs", "cron_cjs", "cron"}

\* the bounding box a handler is configured with (earthph-cron.js has none
\* of its own: the box of the other cron and scrape functions)
InBoxOf(h, latitude, longitude) ==
    IF h \in {"events", "scrape"} THEN InBox_events(latitude, longitude)
    ELSE InBox_cjs(latitude, longitude)

SameEvent(e, f) ==
    /\ e.occurred_at = f.occurred_at
    /\ e.latitude = f.latitude
    /\ e.longitude = f.longitude

\* C1: the batch handed to the store's upsert call never holds two records
\* with the same id.
C1_BatchHasDistinctIds ==
    last.upsertCalled => ~HasDuplicateIds(last.batch)

\* C2: when two successive scrape cycles of one handler complete on the same
\* source document, the second adds no row: every row in the store after it
\* was there, with the same id and field values, after the first.
C2_SecondRunAddsNoRow ==
    [][(/\ Handled
        /\ CycleOk(last) /\ CycleOk(last')
        /\ last'.h = last.h
        /\ last'.doc = last.doc)
       => \A r \in store' :
             \E q \in store : Columns_events(q) = Columns_events(r)]_vars

\* C3: after a scrape cycle that completed at time T, every row of the store
\* has T - occurred_at <= 24 h.
C3_NoRowOlderThanRetention ==
    CycleOk(last) => \A r \in store : last.T - r.occurred_at <= RETENTION_MS

\* C4: every record of a batch handed to the upsert call lies inside the
\* bounding box of the handler: rows outside are dropped before the upsert.
C4_BatchInsideBox ==
    last.upsertCalled =>
        \A i \in 1..Len(last.batch) :
            InBoxOf(last.h, last.batch[i].latitude, last.batch[i].longitude)

\* C5, as stated: whatever the interleaving of the store calls of two
\* overlapping cycles, once both have completed the store has one row per id
\* at most and holds the rows (created_at left aside) that the two cycles,
\* each with the batch and the clock readings it had, leave when run one
\* after the other in some order.
UniqueIds(S) == \A r, q \in S : r.id = q.id => r = q

UpsertOf(S, x) == IF x.upsertOk THEN Upsert(S, x.batch, x.tu) ELSE S

ApplyCycle(S, x) ==
    IF x.pc = "done" /\ x.sweepOk
    THEN DeleteOlderOccurred(UpsertOf(S, x), x.ts - RETENTION_MS)
    ELSE UpsertOf(S, x)

Serial(i, j) == ApplyCycle(ApplyCycle(inv.before, inv.c[i]), inv.c[j])

ColumnsOf(S) == {Columns_events(r) : r \in S}

C5_EqualsSerialOrder ==
    (\A i \in InvIds : inv.c[i].pc = "done" /\ inv.c[i].sweepOk)
    => /\ UniqueIds(store)
       /\ ColumnsOf(store) \in {ColumnsOf(Serial(1, 2)), ColumnsOf(Serial(2, 1))}

\* C5, amended: the store has one row per id at most at every moment, and
\* once both cycles have completed (every store call served) it is what
\* upserting the two batches in some order and then sweeping once, with the
\* cutoff of the later sweep, leaves.
LaterSweep ==
    IF inv.c[1].ts >= inv.c[2].ts THEN inv.c[1].ts ELSE inv.c[2].ts

Merged(i, j) ==
    DeleteOlderOccurred(UpsertOf(UpsertOf(inv.before, inv.c[i]), inv.c[j]),
                        LaterSweep - RETENTION_MS)

C5_MergedThenSwept ==
    /\ UniqueIds(store)
    /\ (\A i \in InvIds : inv.c[i].pc = "done" /\ inv.c[i].sweepOk)
       => store \in {Merged(1, 2), Merged(2, 1)}

C5_Witness ==
    /\ \A i \in InvIds : inv.c[i].pc = "done" /\ inv.c[i].sweepOk
                          /\ inv.c[i].upsertOk
    /\ inv.c[1].ts # inv.c[2].ts
    /\ \E k \in 1..Len(inv.c[1].batch), m \in 1..Len(inv.c[2].batch) :
          /\ inv.c[1].batch[k].id = inv.c[2].batch[m].id
          /\ inv.c[1].batch[k].magnitude # inv.c[2].batch[m].magnitude
    /\ store # {}
    /\ ColumnsOf(store) \notin {ColumnsOf(Serial(1, 2)), ColumnsOf(Serial(2, 1))}

\* C6: when two successive completed cycles of one handler both store a record
\* of the same timestamp, latitude and longitude (the second cycle only one
\* such record, not older than 24 h), the store then holds exactly one row of
\* that event, with the magnitude, depth and location of the second cycle.
C6_OneRowWithSecondFields ==
    [][(/\ Handled
        /\ CycleOk(last) /\ last.upsertOk
        /\ CycleOk(last') /\ last'.upsertOk
        /\ last'.h = last.h)
       => \A i \in 1..Len(last.batch), j \in 1..Len(last'.batch) :
             (/\ SameEvent(last.batch[i], last'.batch[j])
              /\ \A k \in 1..Len(last'.batch) :
                    SameEvent(last'.batch[k], last'.batch[j]) => k = j
              /\ last'.T - last'.batch[j].occurred_at <= RETENTION_MS)
             => {Columns_events(r) : r \in {q \in store' :
                                              SameEvent(q, last'.batch[j])}}
                = {last'.batch[j]}]_vars

\* C7: a successful answer of the read service holds only events of the last
\* 24 hours, in descending order of occurred_at, at most 500 (scaled:
\* READ_LIMIT_events_cjs) of them.
EventTime(a, i) ==
    IF a.h = "events" THEN a.events[i].occurred_at ELSE a.events[i].datetime

C7_ReadWindowSortedCapped ==
    (last.h \in {"events", "events_cjs"} /\ last.status = 200
     /\ last.method = "GET")
    => /\ \A i \in 1..Len(last.events) :
             last.T - EventTime(last, i) <= RETENTION_MS
       /\ \A i, j \in 1..Len(last.events) :
             i < j => EventTime(last, i) >= EventTime(last, j)
       /\ Len(last.events) <= READ_LIMIT_events_cjs

\* C8: a GET read scrapes exactly when the staleness window has elapsed
\* since the last successful cycle.  Hence a GET read that follows a read
\* whose cycle failed (which had to scrape, so the window had elapsed, and
\* no cycle has succeeded since) scrapes too and does not report cached.
C8_ScrapesAgainAfterFailedCycle ==
    [][(/\ Handled
        /\ last.h = "events" /\ last.ran /\ last.error # "none"
        /\ last'.h = "events" /\ last'.method = "GET" /\ last'.status = 200)
       => (last'.ran /\ last'.cached = "false")]_vars

\* C9: when the fetch of a read-triggered scrape fails or times out (and the
\* store serves the query), the read answers 200 / success with the rows
\* the store holds, the store is unchanged and no store call was made.
C9_FetchFailureServesStore ==
    [][(/\ Handled
        /\ last'.h = "events" /\ last'.ran
        /\ last'.fetch \in FetchResults \ {"ok"}
        /\ last'.query = "ok")
       => /\ store' = store
          /\ ~last'.upsertCalled /\ ~last'.sweepCalled
          /\ last'.status = 200 /\ last'.success = "true"
          /\ last'.events \in Query_events(store)]_vars

C9_Witness ==
    /\ last.h = "events" /\ last.ran /\ last.fetch = "timeout"
    /\ last.query = "ok" /\ last.status = 200
    /\ Len(last.events) > 0 /\ store # {}

\* C10: when the store refuses the batch of a scrape trigger, no retention
\* sweep runs, the caller gets a failure (500, success false) and the store
\* is exactly what it was before the cycle.
C10_RejectedUpsertAborts ==
    [][(/\ Handled
        /\ last'.h \in Triggers
        /\ last'.upsertCalled /\ ~last'.upsertOk)
       => /\ store' = store
          /\ ~last'.sweepCalled
          /\ last'.status = 500 /\ last'.success = "false"]_vars

C10_Witness ==
    /\ last.h \in {"scrape", "scrape_cjs"}
    /\ last.upsertCalled /\ ~last.upsertOk /\ Len(last.batch) > 0
    /\ last.status = 500 /\ store # {}

\* C11: when the fetch of the source fails (timeout, status other than 200,
\* connection error) in a cycle run by a scrape trigger, no upsert and no
\* delete is issued, the store is unchanged and the answer is a failure:
\* success false with a status other than 200.
C11_FetchFailureAborts ==
    [][(/\ Handled
        /\ last'.h \in Triggers /\ last'.ran
        /\ last'.fetch \in FetchResults \ {"ok"})
       => /\ store' = store
          /\ ~last'.upsertCalled /\ ~last'.sweepCalled
          /\ last'.success = "false"
          /\ last'.status \in {500, 503, 504}]_vars

C11_Witness ==
    /\ last.h = "scrape" /\ last.ran /\ last.fetch = "unavailable"
    /\ last.status = 503 /\ last.success = "false" /\ store # {}

\* C12: a cycle of a scrape trigger one of whose store calls (the upsert or
\* the retention delete) returned an error answers its caller with a
\* failure; it never answers success.
C12_StoreErrorIsFailure ==
    (/\ last.h \in Triggers
     /\ \/ last.upsertCalled /\ ~last.upsertOk
        \/ last.sweepCalled /\ ~last.sweepOk)
    => last.success = "false" /\ last.status # 200

\* C13: within one function instance of api/events.js, for every client
\* address and every instant t at most MAX_REQUESTS_PER_MINUTE requests of
\* that address were let pass in the window (t - 60 s, t], and a request that
\* arrives when that many of its address were let pass in the 60 s before it
\* is answered 429 and is not let pass.
AdmittedIn(A, ip, t) ==
    {a \in A : a.h = "events" /\ a.ip = ip /\ a.t <= t
               /\ t - a.t < RATE_LIMIT_WINDOW_MS}

C13_AtMostMaxPerWindow ==
    [][(Handled /\ last'.h = "events")
       => /\ Cardinality(AdmittedIn(admits, last'.ip, now))
                >= MAX_REQUESTS_PER_MINUTE
             => (last'.status = 429 /\ admits' = admits)
          /\ \A ip \in IPs, t \in 0..now :
                Cardinality(AdmittedIn(admits', ip, t))
                   <= MAX_REQUESTS_PER_MINUTE]_vars

C13_Witness ==
    /\ last.h = "events" /\ last.status = 429 /\ last.n = MaxRequests
    /\ Cardinality(AdmittedIn(admits, last.ip, last.T)) = MAX_REQUESTS_PER_MINUTE
    /\ \A a \in admits : a.n < last.n

\* C14: after api/scrape.js or a cron handler has let a GET request pass at
\* time t, the next GET request to it (with the right secret, where one is
\* asked for) is answered 429 with no fetch and no store call when it arrives
\* before t + MIN_INTERVAL, and is let pass again when it arrives at or after
\* t + MIN_INTERVAL.
Gated == {"scrape", "cron_cjs", "cron"}

MinIntervalOf(h) == IF h = "scrape" THEN MIN_INTERVAL_scrape ELSE MIN_INTERVAL_cron

Authorised(a) == a.h = "scrape" \/ a.secret = "valid"

C14_GateHoldsForMinInterval ==
    [][(/\ Handled
        /\ last.h \in Gated /\ last.method = "GET" /\ last.ran
        /\ last'.h = last.h /\ last'.method = "GET" /\ Authorised(last'))
       => IF last'.T < last.T + MinIntervalOf(last.h)
          THEN /\ last'.status = 429
               /\ ~last'.ran /\ ~last'.upsertCalled /\ ~last'.sweepCalled
               /\ store' = store
          ELSE last'.status # 429 /\ last'.ran]_vars

C14_Witness ==
    /\ last.h = "scrape" /\ last.method = "GET" /\ last.status = 429
    /\ last.n = MaxRequests /\ last.T = scrapeLast + 1 /\ store # {}

\* C15: a handler that asks for the secret header runs a scrape cycle (fetch,
\* store calls) only for a request whose header equals a configured secret;
\* a request whose header is missing or differs from the configured secret
\* runs no cycle and is answered 401.
Protected == {"scrape_cjs", "cron_cjs", "cron"}

C15_CycleOnlyWithConfiguredSecret ==
    last.h \in Protected
    => /\ last.ran => (env = "set" /\ last.secret = "valid")
       /\ (/\ env = "set" /\ last.secret # "valid"
           /\ (last.h = "scrape_cjs" => last.method = "GET"))
          => (last.status = 401 /\ ~last.ran)

\* C16: a request whose method is neither GET nor OPTIONS is answered 405,
\* and neither it nor an OPTIONS request runs a scrape cycle, queries or
\* changes the store, or changes a last-scrape timestamp.
C16_OtherMethodsDoNothing ==
    [][(Handled /\ last'.method # "GET")
       => /\ last'.method # "OPTIONS" => last'.status = 405
          /\ ~last'.ran /\ last'.query = "none"
          /\ UNCHANGED <<store, lastScrapeTime, scrapeLast, cronLast,
                         cronCjsLast>>]_vars

\* C17, as stated: when the store query of the read service returns an
\* error the answer is 500 with success false and no events, and the store
\* is what it was before the request.
C17_QueryErrorLeavesStore ==
    [][(/\ Handled
        /\ last'.h \in {"events", "events_cjs"} /\ last'.query = "error")
       => /\ last'.status = 500 /\ last'.success = "false"
          /\ last'.events = <<>>
          /\ store' = store]_vars

\* C17, amended: when the store query of the read service returns an error
\* the answer is 500 with success false and no events; the query and the
\* error handling change nothing in the store, whose only change during the
\* request is the upsert and sweep of the scrape cycle that a stale read of
\* api/events.js ran before the query.
C17_QueryErrorAnswers500 ==
    [][(/\ Handled
        /\ last'.h \in {"events", "events_cjs"} /\ last'.query = "error")
       => /\ last'.status = 500 /\ last'.success = "false"
          /\ last'.events = <<>>
          /\ store' # store => (last'.ran /\ last'.upsertOk)]_vars

C17_Witness ==
    /\ last.h = "events" /\ last.query = "error" /\ last.status = 500
    /\ last.ran /\ last.upsertOk /\ last.sweepOk
    /\ \E r \in store : r.created_at = last.T

\* C18: for every well-formed text 'DD Month YYYY - hh:mm AM|PM' the
\* Normalizer returns the UTC instant 8 hours before the local time stated:
\* 12 AM is hour 0, 12 PM hour 12, any other PM hour 12 more; the date is
\* the day before when the local time is before 08:00.
WellFormed(str) ==
    /\ str.sep = 1
    /\ str.month \in DOMAIN monthMap
    /\ str.day \in 1..31 /\ str.day <= DaysInMonth(str.year, monthMap[str.month])
    /\ str.hour \in 1..12 /\ str.minute \in 0..59
    /\ str.mer \in {"AM", "PM"}

LocalHour(str) ==
    IF str.mer = "AM" THEN (IF str.hour = 12 THEN 0 ELSE str.hour)
    ELSE (IF str.hour = 12 THEN 12 ELSE str.hour + 12)

DayBefore(y, m, d) ==
    IF d > 1 THEN [year |-> y, month |-> m, day |-> d - 1]
    ELSE IF m > 1 THEN [year |-> y, month |-> m - 1,
                        day |-> DaysInMonth(y, m - 2)]
    ELSE [year |-> y - 1, month |-> 12, day |-> 31]

ExpectedInstant(str) ==
    LET m == monthMap[str.month] + 1
        date == IF LocalHour(str) >= 8
                THEN [year |-> str.year, month |-> m, day |-> str.day]
                ELSE DayBefore(str.year, m, str.day)
    IN  [year |-> date.year, month |-> date.month, day |-> date.day,
         hours |-> IF LocalHour(str) >= 8 THEN LocalHour(str) - 8
                   ELSE LocalHour(str) + 16,
         minutes |-> str.minute]

C18_EightHoursBeforeLocal ==
    (call.fn \in {"events", "cjs"} /\ WellFormed(call.arg))
    => call.out = ExpectedInstant(call.arg)

C18_Witness ==
    /\ call.fn = "events"
    /\ call.arg = [sep |-> 1, day |-> 1, month |-> "November",
                   year |-> 2025, hour |-> 4, minute |-> 12, mer |-> "PM"]
    /\ call.out = [year |-> 2025, month |-> 11, day |-> 1, hours |-> 8,
                   minutes |-> 12]

\* C19: a row whose timestamp text is malformed (the Normalizer returns
\* null for it) is skipped by the scrape cycle: the cycle does not fail on
\* it, and no record without a timestamp reaches the batch.
C19_MalformedTimestampSkipped ==
    (last.ran /\ last.fetch = "ok")
    => /\ last.error # "parse"
       /\ \A i \in 1..Len(last.batch) : last.batch[i].occurred_at # NULL

C21_AnswerReportsCounts ==
    (last.h = "scrape_cjs" /\ last.status = 200 /\ last.ran)
    => /\ last.report.eventsScraped = Len(last.batch)
       /\ last.report.duplicatesRemoved
             = Len(Extract_cjs(last.doc, TRUE, last.T)) - Len(last.batch)
       /\ last.sweepOk => last.report.eventsDeleted = last.deleted

\* C22: the lastUpdated of a served read of api/events-cjs.js is the greatest
\* created_at among the rows of the table.
StoredCreated == {r.created_at : r \in store}

C22_LastUpdatedIsFreshestStored ==
    (last.h = "events_cjs" /\ last.status = 200 /\ store # {})
    => /\ last.lastUpdated \in StoredCreated
       /\ \A t \in StoredCreated : t <= last.lastUpdated

\* C23: a read request of api/events.js is answered, once: its cycle calls
\* axios.get at most once, the call is over when its timeout has run out,
\* and a request parked on an await is eventually responded to.
InFlight == call.pc \in {"fetching", "upserting", "sweeping", "querying"}

C24_NoEventOlderThanRetentionWritten ==
    (last.ran /\ last.upsertCalled /\ last.upsertOk)
    => \A i \in 1..Len(last.batch) :
          last.T - last.batch[i].occurred_at <= RETENTION_MS

\* C25: the batch the deduplicating handlers (api/events.js,
\* api/scrape-cjs.js) write has one record per id, and each record is the
\* first of the validated rows with its id, in the order of the rows.
ValidatedOf(a) ==
    IF a.h = "events" THEN Extract_events(a.doc)
    ELSE Extract_cjs(a.doc, TRUE, a.T)

IsFirstOccurrences(batch, events) ==
    /\ ~HasDuplicateIds(batch)
    /\ \A i \in 1..Len(events) : \E k \in 1..Len(batch) : batch[k].id = events[i].id
    /\ \A k \in 1..Len(batch) :
          \E i \in 1..Len(events) :
             /\ batch[k] = events[i]
             /\ \A j \in 1..(i - 1) : events[j].id # events[i].id
    /\ \A k, m \in 1..Len(batch) :
          k < m => \E i, j \in 1..Len(events) :
                      /\ i < j
                      /\ events[i].id = batch[k].id
                      /\ events[j].id = batch[m].id
                      /\ \A n \in 1..(j - 1) : events[n].id # events[j].id

C25_DedupKeepsFirstOccurrence ==
    (last.h \in {"events", "scrape_cjs"} /\ last.upsertCalled)
    => IsFirstOccurrences(last.batch, ValidatedOf(last))

\* C26: a row whose callback pushes a record has exactly six cells and
\* non-empty text for timestamp, latitude, longitude and magnitude.
C26_OnlySixCellRowsReachValidation ==
    (call.fn \in {"events", "scrape_cjs"})
    => \A i \in 1..Len(call.rows) :
          /\ call.rows[i].cells = 6
          /\ call.rows[i].dt.fmt # "empty"
          /\ call.rows[i].lat # EMPTY
          /\ call.rows[i].lon # EMPTY
          /\ call.rows[i].mag # EMPTY

\* C27: every record the row loop of api/events.js pushes has a finite
\* latitude, longitude and magnitude.
IsFinite(x) == x \notin {NaN, NULL, Infinity}

C27_AcceptedNumbersAreFinite ==
    (call.fn = "events")
    => \A i \in 1..Len(call.events) :
          /\ IsFinite(call.events[i].latitude)
          /\ IsFinite(call.events[i].longitude)
          /\ IsFinite(call.events[i].magnitude)

\* C28: a pushed record has depth_km null where the depth text of its row
\* is no number, and the number of the depth text otherwise.
C28_DepthIsNumberOrNull ==
    (call.fn \in {"events", "scrape_cjs"})
    => \A i \in 1..Len(call.rows) :
          IF call.rows[i].depth \in {EMPTY, GARBAGE}
          THEN call.events[i].depth_km = NULL
          ELSE call.events[i].depth_km = call.rows[i].depth

\* C29: two records of the row loop of api/events.js have the same id exactly
\* when they have the same instant and the same latitude and longitude
\* after scaling by 100 and rounding.
SameKey(e, f) ==
    /\ e.occurred_at = f.occurred_at
    /\ (e.latitude + 50) \div 100 = (f.latitude + 50) \div 100
    /\ (e.longitude + 50) \div 100 = (f.longitude + 50) \div 100

C29_IdIsInstantAndRoundedCoordinates ==
    (call.fn = "events")
    => \A i, j \in 1..Len(call.events) :
          (call.events[i].id = call.events[j].id)
          <=> SameKey(call.events[i], call.events[j])

\* C30: a cycle whose fetch succeeded and whose upsert, if one was made, was
\* served has called the retention sweep, an empty batch included.
C30_SweepAfterEveryFetchedCycle ==
    (/\ last.ran
     /\ last.fetch = "ok"
     /\ (last.upsertCalled => last.upsertOk))
    => last.sweepCalled

\* C31: a step never removes from the table an event that occurred within
\* the last 24 hours (and was stored no earlier than it occurred), whether
\* its sweep deletes by created_at or by occurred_at.
Recent(r, t) == ~(r.occurred_at < t - RETENTION_MS)

C31_SweepKeepsRecentEvents ==
    [][\A r \in store :
          (Recent(r, now) /\ r.created_at >= r.occurred_at)
          => \E q \in store' : q.id = r.id]_vars

C31_Witness ==
    /\ call.fn = "sweep"
    /\ call.by = "created_at"
    /\ call.ok
    /\ call.deleted > 0
    /\ \E r \in store : Recent(r, call.T) /\ r.created_at < call.T

\* C32: after a served upsert a row of the batch that is in the table has
\* the data fields of its batch record; if its id was in the table before,
\* its created_at is what it was, otherwise it is the time of the upsert.
DataOf(r) ==
    [id |-> r.id, occurred_at |-> r.occurred_at, latitude |-> r.latitude,
     longitude |-> r.longitude, depth_km |-> r.depth_km,
     magnitude |-> r.magnitude, location_text |-> r.location_text]

C32_UpsertKeepsIdAndCreatedAt ==
    [][(Handled /\ last'.upsertCalled /\ last'.upsertOk)
       => \A i \in 1..Len(last'.batch) :
             \A q \in store' :
                q.id = last'.batch[i].id
                => /\ DataOf(q) = DataOf(last'.batch[i])
                   /\ \A r \in store :
                         r.id = q.id => q.created_at = r.created_at
                   /\ (\A r \in store : r.id # q.id)
                         => q.created_at = last'.T]_vars

C32_Witness ==
    /\ last.h = "scrape_cjs"
    /\ last.upsertCalled
    /\ last.upsertOk
    /\ \E q \in store :
          /\ q.created_at < last.T
          /\ q.magnitude = E1m.mag
          /\ \E i \in 1..Len(last.batch) : last.batch[i].id = q.id

\* C33: of the read requests of api/events.js that found the cache stale
\* with the same lastScrapeTime, at most one started a scrape cycle.
C33_OneCyclePerStaleWindow ==
    \A i, j \in InvIds :
       (i # j /\ inv.r[i].started /\ inv.r[j].started)
       => inv.r[i].seen # inv.r[j].seen

\* C34: of the invocations of one gated trigger, overlapping or not, any two
\* that passed the gate arrived at least MIN_INTERVAL apart.
C34_OnePassPerMinInterval ==
    \A i, j \in InvIds :
       (/\ i # j
        /\ inv.t[i].passed /\ inv.t[j].passed
        /\ inv.t[i].h = inv.t[j].h
        /\ inv.t[i].n < inv.t[j].n)
       => inv.t[j].T - inv.t[i].T >= MinIntervalOf(inv.t[i].h)

C34_Witness ==
    \E i, j \in InvIds :
       /\ inv.t[i].passed /\ inv.t[i].pc = "running"
       /\ inv.t[j].h = inv.t[i].h
       /\ inv.t[j].n > inv.t[i].n
       /\ inv.t[j].atGate /\ inv.t[j].status = 429

\* C35: a trigger that reaches the gate after an invocation of the same
\* handler passed it, less than MIN_INTERVAL later, is answered 429, also
\* when the cycle of that invocation has failed.
C35_FailedCycleKeepsGateShut ==
    \A i, j \in InvIds :
       (/\ inv.t[i].passed
        /\ inv.t[j].h = inv.t[i].h
        /\ inv.t[j].n > inv.t[i].n
        /\ inv.t[j].atGate
        /\ inv.t[j].T - inv.t[i].T < MinIntervalOf(inv.t[i].h))
       => inv.t[j].status = 429 /\ ~inv.t[j].passed

C35_Witness ==
    \E i, j \in InvIds :
       /\ inv.t[i].passed /\ inv.t[i].failed
       /\ inv.t[j].h = inv.t[i].h
       /\ inv.t[j].n > inv.t[i].n
       /\ inv.t[j].sawFailed
       /\ inv.t[j].T - inv.t[i].T < MinIntervalOf(inv.t[i].h)
       /\ inv.t[j].status = 429

\* C36: the limiter of api/events.js holds at most MAX_REQUESTS_PER_MINUTE
\* timestamps for an IP, and a request is admitted exactly when fewer than
\* MAX_REQUESTS_PER_MINUTE admitted requests of its IP lie within the
\* window before it; refused requests do not count.
AdmittedBefore(c) ==
    {a \in admits : /\ a.h = "events" /\ a.ip = c.ip /\ a.n < c.n
                    /\ c.T - a.t < RATE_LIMIT_WINDOW_MS}

C36_DeniedRequestsNotRecorded ==
    (call.fn = "limiter")
    => /\ \A ip \in IPs : Len(rateLimitMap.events[ip]) <= call.max
       /\ call.n > 0
             => (call.allowed <=> Cardinality(AdmittedBefore(call)) < call.max)

C36_Witness ==
    /\ call.fn = "limiter"
    /\ call.allowed
    /\ \E d \in call.denied : d.ip = call.ip /\ d.t < call.T

\* C37: the cleanup takes out of the map only timestamps that are no longer
\* within the window, and every call of checkRateLimit answers, decision
\* and remaining count, what it would answer had the cleanup never run.
Live(timestamps, t) ==
    SelectSeq(timestamps, LAMBDA ts : t - ts < RATE_LIMIT_WINDOW_MS)

C37_CleanupChangesNoDecision ==
    (call.fn = "limiter")
    => /\ \A ip \in IPs :
             Live(rateLimitMap.events[ip], now) = Live(call.shadow[ip], now)
       /\ call.allowed = call.shadowAllowed
       /\ call.remaining = call.shadowRemaining

C37_Witness ==
    /\ call.fn = "limiter"
    /\ call.cleaned
    /\ call.max = MaxCap
    /\ call.allowed
    /\ call.remaining = 1
    /\ call.denied # {}

=============================================================================
